---- MODULE Spec2Model ----
(***************************************************************************)
(* Session orchestrator of the voice-assistant client                      *)
(* (src/src/application.py), its websocket transport                       *)
(* (src/src/protocols/protocol.py, websocket_protocol.py) and the thing    *)
(* registry delta cache (src/src/iot/thing_manager.py).                    *)
(*                                                                         *)
(* Threads of the program and how they appear here:                        *)
(*   main loop thread   : ProcessScheduled, Run..., SlResult, SlTimeout,  *)
(*                        DrainPoll, HandleInputAudio, HandleOutputAudio   *)
(*   asyncio loop thread: LoopStep (coroutines posted with                 *)
(*                        run_coroutine_threadsafe, FIFO), the connect()   *)
(*                        coroutine steps and the per-connection           *)
(*                        _message_handler (Recv... actions)               *)
(*   worker threads     : connect_and_listen (Ct...), close_audio_channel  *)
(*                        (CloseThread), process_abort (At...)             *)
(*   UI / detector      : Toggle, StartListening, StopListening, UiAbort*, *)
(*                        WakeDetected                                     *)
(***************************************************************************)
EXTENDS Integers, Sequences, FiniteSets, TLC

\* ---------------------------------------------------------------- bounds
MaxConn == 2            \* connect() attempts in one behaviour
MaxTasks == 4           \* length of main_tasks plus the batch being run
MaxLoopQ == 3           \* coroutines waiting on the asyncio loop
MaxQueue == 2           \* frames in the decode queue
MaxWaitAttempts == 2    \* stands for max_wait_attempts = 30 of the drain poll
MaxEvents == 3          \* user operations, server control messages and network faults
MaxThings == 2          \* things registered with the ThingManager
MaxCommands == 3        \* commands in one iot message
MaxSubmit == 4          \* schedule() calls in one behaviour
MaxFrames == 102        \* add_reference_data calls in one behaviour
MaxValue == 1           \* property values are 0..MaxValue, parameter values 1..MaxValue

Conns == 1..MaxConn

IDLE == "idle"
CONNECTING == "connecting"
LISTENING == "listening"
SPEAKING == "speaking"
DeviceState == {IDLE, CONNECTING, LISTENING, SPEAKING}

\* AbortReason
NONE == "none"
WAKE_WORD_DETECTED == "wake_word_detected"

\* ListeningMode as mapped by mode_map in send_start_listening
AUTO_STOP == "auto"
MANUAL == "manual"

AbortSlots == {"main", "ui"}

VARIABLES
    \* Application
    device_state, keep_listening, aborted,
    main_tasks,         \* the mutex-guarded task list
    batch,              \* the copy _process_scheduled_tasks is iterating
    mainpc,             \* "run" | "sl_wait" | "drain": where the main thread blocks
    attempts,           \* delayed_state_change's poll counter
    sl_res,             \* result of the future _start_listening_impl waits on
    streams_started,    \* the audio event-trigger threads exist
    \* wake word detector
    wwd_paused,
    \* audio codec
    decode_queue,       \* number of frames in audio_decode_queue
    \* WebsocketProtocol
    websocket,          \* 0 = None, else the connection id
    connected,
    hello_received,     \* 0 = None, else the id of the asyncio.Event
    evset,              \* the Events that are set
    session_id,         \* Protocol.session_id (0 = "")
    wsst,               \* per connection: "none","open","broken","closed"
    nattempt,           \* connect() calls so far
    cn,                 \* per connect() call: the coroutine's position
    srv,                \* per connection: has the server sent its hello
    loopq,              \* coroutines posted to the asyncio loop, FIFO
    \* worker threads
    ct,                 \* connect_and_listen thread of _toggle_chat_state_impl
    clt,                \* close_audio_channel thread of _toggle_chat_state_impl
    at,                 \* process_abort threads, by the thread that called abort_speaking
    ui_abort_pc,        \* the UI thread inside abort_speaking
    \* thing registry
    lamp_power,         \* Lamp.power
    last_states,        \* ThingManager.last_states entry of the lamp ("none" = absent)
    \* history variables (not program state)
    play_state,         \* the state play_audio last dequeued in, since the last state change
    desc_n,             \* per connection: iot descriptor messages written
    neterr,             \* "no" | "pending" | "idle": network error since the last connect
    ab,                 \* abort_speaking bookkeeping of the current utterance
    nev,                \* events from outside so far (see Event)
    \* the thing registry on its own (ThingManager, Thing, Method)
    things,             \* ThingManager.things: <<[name, state]>>, state the property value
    tm_last_states,     \* ThingManager.last_states, by thing name
    tm_ret,             \* what the last get_states_json returned, and how it was called
    tm_snap,            \* history: the things' states at the last get_states_json
    method,             \* a Method: its Parameters' values and the last invoke
    spk,                \* Speaker: the value of SetVolume's Parameter, and the volume
    iot_log,            \* history: the last iot message and the outcome of each command
    \* start-up, before the Application's fields exist (ConfigManager, DeviceActivator)
    boot,               \* _initialize_mqtt_info: position, configuration, activation
    rx,                 \* history: the text frames _message_handler received
    life,               \* shutdown: the running flag, the threads, codec and detector
    sch,                \* schedule and the main loop, statement by statement
    ref                 \* WebRTCProcessor: its sizes and its reference buffer

\* the variables the callback record Cur carries
cbvars == <<main_tasks, loopq, keep_listening, wwd_paused, websocket, connected,
            wsst, neterr, device_state, last_states, play_state>>
mainvars == <<batch, mainpc, attempts, sl_res, streams_started>>
audvars == <<aborted, decode_queue, ab>>
connvars == <<hello_received, evset, session_id, nattempt, cn, srv, desc_n>>
thrvars == <<ct, clt, at, ui_abort_pc>>
thingvars == <<lamp_power>>
iotvars == <<things, tm_last_states, tm_ret, tm_snap, method, spk, iot_log, boot, rx, life, sch, ref>>
appvars == <<cbvars, mainvars, audvars, connvars, thrvars, thingvars, nev>>
vars == <<appvars, iotvars>>

\* one more event from outside: a user operation, a server control message or a
\* fault: a lost connection, a failed dial or a connect that takes longer than its
\* caller waits (audio frames are not counted)
Event == nev < MaxEvents /\ nev' = nev + 1 /\ UNCHANGED iotvars

\* ------------------------------------------------------------- records
Task(op) == [op |-> op, st |-> "-", src |-> "-"]
SetState(st, src) == [op |-> "set_state", st |-> st, src |-> src]
Co(op, arg, who) == [op |-> op, arg |-> arg, who |-> who]

NoThread == [pc |-> "none", res |-> "-"]
NoAbort == [pc |-> "none", reason |-> "-", sent |-> "none", to |-> FALSE, cur |-> FALSE]
NoConnect == [pc |-> "none", who |-> "-", ev |-> 0]
NoAb == [calls |-> 0, bodies |-> 0, sub |-> 0, idle |-> 0, raced |-> FALSE, sp |-> FALSE]

Inc2(n) == IF n < 2 THEN n + 1 ELSE 2

\* The variables the callbacks below read and write, as one record.
Cur == [mt |-> main_tasks, lq |-> loopq, kl |-> keep_listening, wp |-> wwd_paused,
        ws |-> websocket, co |-> connected, wst |-> wsst, ne |-> neterr,
        ds |-> device_state, ls |-> last_states, ps |-> play_state]

Commit(b) ==
    /\ Len(batch') + Len(b.mt) <= MaxTasks
    /\ Len(b.lq) <= MaxLoopQ
    /\ main_tasks' = b.mt
    /\ loopq' = b.lq
    /\ keep_listening' = b.kl
    /\ wwd_paused' = b.wp
    /\ websocket' = b.ws
    /\ connected' = b.co
    /\ wsst' = b.wst
    /\ neterr' = b.ne
    /\ device_state' = b.ds
    /\ play_state' = b.ps
    /\ last_states' = b.ls

\* Application.schedule
schedule(b, t) == [b EXCEPT !.mt = Append(@, t)]

\* asyncio.run_coroutine_threadsafe(coro, self.loop)
submit(b, c) == [b EXCEPT !.lq = Append(@, c)]

\* WebsocketProtocol.is_audio_channel_opened
is_audio_channel_opened(b) == b.ws # 0 /\ b.co

\* ------------------------------------------------------ thing registry
LampState == IF lamp_power THEN "on" ELSE "off"

\* ThingManager.get_states_json: <<changed, last_states afterwards>>
get_states_json(ls, delta) ==
    IF ~delta THEN [changed |-> FALSE, ls |-> "none"]
    ELSE IF ls = LampState THEN [changed |-> FALSE, ls |-> ls]
    ELSE [changed |-> TRUE, ls |-> LampState]

\* Application._update_iot_states
_update_iot_states(b, delta) ==
    LET r == get_states_json(b.ls, delta)
        b1 == [b EXCEPT !.ls = r.ls]
    IN IF ~delta \/ r.changed THEN submit(b1, Co("send_states", "-", "-")) ELSE b1

\* ---------------------------------------------------- Application core
\* Application.set_device_state below its first test: the state is entered
enter_state(b, state) ==
    LET b1 == [b EXCEPT !.ds = state, !.ps = "none",
                        !.ne = IF state = IDLE /\ @ = "pending" THEN "idle" ELSE @]
    IN CASE state = IDLE -> [b1 EXCEPT !.wp = FALSE]
         [] state = CONNECTING -> b1
         [] state = LISTENING -> [_update_iot_states(b1, TRUE) EXCEPT !.wp = TRUE]
         [] state = SPEAKING -> [b1 EXCEPT !.wp = FALSE]

set_state_unchecked(b, state) == enter_state(b, state)

\* Application.set_device_state
set_device_state(b, state) ==
    IF b.ds = state THEN b ELSE enter_state(b, state)

\* Application._on_network_error
_on_network_error(b) ==
    LET b1 == schedule([b EXCEPT !.kl = FALSE,
                                 !.ne = IF b.ds = IDLE THEN "idle" ELSE "pending"],
                       SetState(IDLE, "-"))
        b2 == [b1 EXCEPT !.wp = FALSE]
    IN IF b.ds # CONNECTING
       THEN submit(schedule(b2, SetState(IDLE, "-")), Co("close", "-", "-"))
       ELSE b2

\* Application._on_audio_channel_closed
_on_audio_channel_closed(b) ==
    [schedule(b, SetState(IDLE, "-")) EXCEPT !.kl = FALSE, !.wp = FALSE]

\* WebsocketProtocol.close_audio_channel
close_audio_channel(b) ==
    IF b.ws # 0
    THEN _on_audio_channel_closed([b EXCEPT !.wst[b.ws] = "closed", !.ws = 0, !.co = FALSE])
    ELSE b

\* WebsocketProtocol.send_text: the message is written iff the socket is there and alive
TextWritten(b) == b.ws # 0 /\ b.wst[b.ws] = "open"
send_text(b) ==
    IF b.ws = 0 \/ b.wst[b.ws] = "open" THEN b
    ELSE _on_network_error(close_audio_channel(b))

\* WebsocketProtocol.send_audio
AudioWritten(b) == is_audio_channel_opened(b) /\ b.wst[b.ws] = "open"
send_audio(b) ==
    IF ~is_audio_channel_opened(b) \/ b.wst[b.ws] = "open" THEN b
    ELSE _on_network_error(b)

\* ------------------------------------- ThingManager, Thing, Method on their own
ThingNames == {"a", "b"}
Values == 0..MaxValue

\* `thing.name in self.last_states` is false
Absent == -1

\* Parameter.value before any set_value
None == 0

\* the Parameters of the Method: p is declared with required=True, q with required=False
ParamNames == {"p", "q"}
RequiredParams == {"p"}

\* the registries add_thing can build: it appends, and checks nothing
Registries ==
    UNION {[1..n -> [name : ThingNames, state : Values]] : n \in 1..MaxThings}

\* Thing.get_state_json
get_state_json(thing) == [name |-> thing.name, state |-> thing.state]

\* get_states_json without its comparison with the cache
NeverSame(ls, thing) == FALSE

\* get_states_json: `thing.name in self.last_states and self.last_states[thing.name] == state_json`
is_same(ls, thing) == ls[thing.name] # Absent /\ ls[thing.name] = thing.state

\* ThingManager.get_states_json: the loop over self.things from index i on
RECURSIVE ScanThings(_, _, _)
ScanThings(i, delta, acc) ==
    IF i > Len(things) THEN acc
    ELSE LET thing == things[i]
         IN IF delta
            THEN IF is_same(acc.ls, thing)
                 THEN ScanThings(i + 1, delta, acc)
                 ELSE ScanThings(i + 1, delta,
                          [changed |-> TRUE,
                           ls |-> [acc.ls EXCEPT ![thing.name] = thing.state],
                           states |-> Append(acc.states, get_state_json(thing))])
            ELSE ScanThings(i + 1, delta,
                     [acc EXCEPT !.states = Append(@, get_state_json(thing))])

NoRet == [changed |-> FALSE, states |-> <<>>, kind |-> "none", prev |-> "none", diff |-> {},
          all |-> FALSE, pall |-> FALSE]
NoMethod == [value |-> [n \in ParamNames |-> None], res |-> "none", supplied |-> {}]

\* Speaker.__init__: the Parameter has no value, the volume is the display's
NoSpeaker == [param |-> "none", volume |-> "default"]
NoIot == [msg |-> <<>>, done |-> <<>>]

\* ------------------------------------------------------------- start-up
max_retries == 60       \* DeviceActivator.activate: max_retries

\* what one POST to <ota>/activate gives: a status code, requests.Timeout, or another
\* exception of the request
Statuses == {"200", "202", "404", "timeout", "error"}

\* an OTA response: has it a "websocket" entry, that entry's url and token ("none":
\* no such key, "empty": a falsy token), and has it an "activation" entry
Urls == {"none", "u1", "u2"}
Tokens == {"none", "empty", "t1", "t2"}
OtaResponses == [websocket : BOOLEAN, url : Urls, token : Tokens, activation : BOOLEAN]
NoResponse == [websocket |-> FALSE, url |-> "none", token |-> "none", activation |-> FALSE]

\* the start of _initialize_mqtt_info: the configuration file's url and token, the
\* ACTIVATION_VERSION setting and the identity file's activated flag (was: its value
\* at the start); posts, last, fetches and second record the requests made
BootStart ==
    {[pc |-> "start", version |-> v, activated |-> a, was |-> a,
      url |-> "u0", token |-> "t0", posts |-> 0, last |-> "-", ret |-> "-",
      fetches |-> 0, second |-> NoResponse] : v \in {"v1", "v2"}, a \in BOOLEAN}

\* start-up is over when Application.__init__ goes on
Booted ==
    [pc |-> "done", version |-> "v2", activated |-> TRUE, was |-> TRUE,
     url |-> "u0", token |-> "t0", posts |-> 0, last |-> "-", ret |-> "-",
     fetches |-> 1, second |-> NoResponse]

\* _initialize_mqtt_info: the WebSocket part of the response goes into the configuration
update_websocket(b, r) ==
    IF r.websocket
    THEN [b EXCEPT !.url = IF r.url # "none" THEN r.url ELSE @,
                   !.token = IF r.token \in {"none", "empty"} THEN "test-token"
                             ELSE r.token]
    ELSE b

BootStep(b) ==
    /\ boot' = b
    /\ UNCHANGED appvars
    /\ UNCHANGED <<things, tm_last_states, tm_ret, tm_snap, method, spk, iot_log, rx, life, sch, ref>>

\* _initialize_mqtt_info with the OTA response r, up to process_activation
InitializeMqttInfo(r) ==
    /\ boot.pc = "start"
    /\ BootStep([update_websocket(boot, r) EXCEPT
                    !.fetches = 1,
                    !.pc = IF boot.version = "v2" /\ r.activation
                           THEN "activate" ELSE "done"])

\* _get_ota_version raises ValueError; _initialize_mqtt_info logs it
OtaFails ==
    /\ boot.pc = "start"
    /\ BootStep([boot EXCEPT !.fetches = 1, !.pc = "done"])

\* process_activation and the start of activate: ok unless the challenge, the code,
\* the serial number, the HMAC signature or the OTA url is missing
ProcessActivation(ok) ==
    /\ boot.pc = "activate"
    /\ BootStep(IF ok THEN [boot EXCEPT !.pc = "polling"]
                ELSE [boot EXCEPT !.ret = "false", !.pc = "done"])

AnyAnswer(status) == status \in {"200", "202"}

\* activate: `response.status_code == 200`
Succeeded(status) == status = "200"

\* activate: one turn of the retry loop, the POST giving status
PostActivate(status) ==
    /\ boot.pc = "polling"
    /\ LET b == [boot EXCEPT !.posts = @ + 1, !.last = status]
       IN BootStep(IF Succeeded(status)
                   THEN [b EXCEPT !.activated = TRUE, !.ret = "true", !.pc = "refetch"]
                   ELSE IF b.posts = max_retries
                        THEN [b EXCEPT !.ret = "false", !.pc = "done"]
                        ELSE b)

\* handle_v2_register: `response_data = self._get_ota_version()` after the activation
RefetchOta(r) ==
    /\ boot.pc = "refetch"
    /\ BootStep([boot EXCEPT !.fetches = 2, !.second = r, !.pc = "done"])

\* the second _get_ota_version raises ValueError; _initialize_mqtt_info logs it
RefetchFails ==
    /\ boot.pc = "refetch"
    /\ BootStep([boot EXCEPT !.fetches = 2, !.pc = "done"])

\* the threads that call schedule besides the main loop's own tasks
SchedThreads == {"ui", "loop"}

\* tasks: main_tasks, as the numbers of the submissions; ev: SCHEDULE_EVENT; mpc: the
\* main loop waits for the event, has cleared it, or executes its copy, btch;
\* callers: who is between the append and the set of schedule; submitted and done:
\* the submissions so far and the executions so far, in order; raced: a submission
\* came between the clear and the copy; failed: the tasks that raised, rest: the most
\* tasks that were behind a raising task in its batch
SchedIdle ==
    [tasks |-> <<>>, ev |-> FALSE, mpc |-> "wait", btch |-> <<>>,
     callers |-> [t \in SchedThreads |-> "idle"], submitted |-> 0, done |-> <<>>,
     raced |-> FALSE, failed |-> {}, rest |-> 0]

\* WebRTCProcessor.__init__: the defaults of sample_rate and frame_size
sample_rate == 16000
frame_size == 160

\* the sizes a WebRTCProcessor is built with: the defaults, 8 kHz, and long frames
SampleRates == {8000, sample_rate}
FrameSizes == {frame_size, 4000}

\* WebRTCProcessor.__init__: `self._reference_buffer = []`. The frames are numbered
\* in the order add_reference_data gets them; added: the frames so far, out: the last
\* frame get_reference_data returned, ret: what its last call returned (-1: no call)
NewProcessor(sr, fs) ==
    [sample_rate |-> sr, frame_size |-> fs, buf |-> <<>>, added |-> 0, out |-> 0,
     ret |-> -1]

\* Application.run has started the main loop and the event loop
Alive == [running |-> TRUE, sd |-> "none", main |-> "on", loop |-> "on",
          codec |-> "open", wwd |-> "on"]

\* the program of Application does not touch this registry, and start-up is over
IotIdle ==
    /\ things = <<>>
    /\ tm_last_states = [n \in ThingNames |-> Absent]
    /\ tm_ret = NoRet
    /\ tm_snap = <<>>
    /\ method = NoMethod
    /\ spk = NoSpeaker
    /\ iot_log = NoIot
    /\ boot = Booted /\ rx = <<>> /\ life = Alive /\ sch = SchedIdle
    /\ ref = NewProcessor(sample_rate, frame_size)

\* get_states_json without `self.last_states.clear()`
not_cleared(ls) == ls

\* get_states_json: `self.last_states.clear()`
cleared(ls) == [n \in ThingNames |-> Absent]

\* ThingManager.get_states_json(delta). History kept with the result: the kind of this
\* call and of the one before, the things whose state differed from the one at the
\* call before (diff), and whether last_states held every thing's state when this
\* call (all) and the one before (pall) returned.
GetStatesJson(delta) ==
    /\ LET ls0 == IF delta THEN tm_last_states ELSE cleared(tm_last_states)
           r == ScanThings(1, delta, [changed |-> FALSE, ls |-> ls0, states |-> <<>>])
       IN /\ tm_last_states' = r.ls
          /\ tm_ret' = [changed |-> r.changed, states |-> r.states,
                        kind |-> IF delta THEN "delta" ELSE "full",
                        prev |-> tm_ret.kind,
                        diff |-> {i \in DOMAIN things : things[i].state # tm_snap[i]},
                        all |-> \A i \in DOMAIN things :
                                   r.ls[things[i].name] = things[i].state,
                        pall |-> tm_ret.all]
    /\ tm_snap' = [i \in DOMAIN things |-> things[i].state]
    /\ UNCHANGED <<things, method, spk, iot_log, boot, rx, life, sch, ref>>
    /\ UNCHANGED appvars

\* a property of thing i gets another value (a thing's method ran)
SetProperty(i, v) ==
    /\ i \in DOMAIN things /\ v # things[i].state
    /\ things' = [things EXCEPT ![i].state = v]
    /\ UNCHANGED <<tm_last_states, tm_ret, tm_snap, method, spk, iot_log, boot, rx, life, sch, ref>>
    /\ UNCHANGED appvars

\* Method.invoke: `param.required and param.get_value() is None` for some parameter
Missing(value) == \E n \in RequiredParams : value[n] = None

\* Method.invoke(params): params gives the parameters in S the values f
MethodInvoke(S, f) ==
    /\ LET value == [n \in ParamNames |-> IF n \in S THEN f[n] ELSE method.value[n]]
       IN method' = [value |-> value,
                     res |-> IF Missing(value) THEN "raised" ELSE "called",
                     supplied |-> S]
    /\ UNCHANGED <<things, tm_last_states, tm_ret, tm_snap, spk, iot_log, boot, rx, life, sch, ref>>
    /\ UNCHANGED appvars

\* Application.__init__ and WebsocketProtocol.__init__
Constructed ==
    /\ device_state = IDLE /\ keep_listening = FALSE /\ aborted = FALSE
    /\ main_tasks = <<>> /\ batch = <<>> /\ mainpc = "run" /\ attempts = 0
    /\ sl_res = "-" /\ streams_started = FALSE
    /\ wwd_paused = FALSE
    /\ decode_queue = 0
    /\ websocket = 0 /\ connected = FALSE /\ hello_received = 0 /\ evset = {}
    /\ session_id = 0
    /\ wsst = [c \in Conns |-> "none"]
    /\ nattempt = 0
    /\ cn = [c \in Conns |-> NoConnect]
    /\ srv = [c \in Conns |-> "new"]
    /\ loopq = <<>>
    /\ ct = NoThread /\ clt = FALSE
    /\ at = [s \in AbortSlots |-> NoAbort]
    /\ ui_abort_pc = "idle"
    /\ lamp_power = FALSE /\ last_states = "none"
    /\ play_state = "none"
    /\ desc_n = [c \in Conns |-> 0]
    /\ neterr = "no"
    /\ ab = NoAb

AppInit == Constructed /\ nev = 0

Init == AppInit /\ IotIdle

\* --------------------------------------------------------- abort_speaking
AbortTag(s) == IF s = "main" THEN "abort_main" ELSE "abort_ui"

Pending(q, op) == \E i \in DOMAIN q : q[i].op = op
Scheduled(op) == Pending(main_tasks, op) \/ Pending(batch, op)

\* A process_abort thread of the caller s may start: the previous one has ended and
\* nothing it posted is still queued.
SlotFree(s) ==
    /\ at[s].pc = "none"
    /\ \A i \in DOMAIN main_tasks : main_tasks[i].src # AbortTag(s)
    /\ \A i \in DOMAIN batch : batch[i].src # AbortTag(s)
    /\ \A i \in DOMAIN loopq : loopq[i].who # s

TagPending(q, s) == \E i \in DOMAIN q : q[i].src = AbortTag(s)

\* the history record of a finished process_abort thread is dropped once nothing refers to it
AtEnd(s, r, mt) ==
    IF r.pc = "none" /\ ~TagPending(mt, s) /\ ~TagPending(batch', s)
       /\ r.sent # "queued"
    THEN NoAbort ELSE r

\* the situation abort_speaking is meant for: speaking, with the audio channel open
InSpeech == device_state = SPEAKING /\ is_audio_channel_opened(Cur)

\* abort_speaking without its `if self.aborted: return`
NeverAborted == FALSE

\* abort_speaking: `if self.aborted: return`
AlreadyAborted == aborted

\* abort_speaking below the guard: flag, queue clear, detector pause, thread start
AbortBody(b, s, reason) ==
    /\ SlotFree(s)
    /\ aborted' = TRUE
    /\ decode_queue' = 0
    /\ at' = [at EXCEPT ![s] = [pc |-> "start", reason |-> reason, sent |-> "none",
                                to |-> FALSE, cur |-> TRUE]]
    /\ Commit(IF reason = WAKE_WORD_DETECTED THEN [b EXCEPT !.wp = TRUE] ELSE b)

\* Application.abort_speaking called on the main thread
abort_speaking(b, reason) ==
    /\ IF AlreadyAborted
       THEN /\ UNCHANGED <<aborted, decode_queue, at>>
            /\ Commit(b)
            /\ ab' = [ab EXCEPT !.calls = Inc2(@), !.raced = @ \/ ui_abort_pc = "body"]
       ELSE /\ AbortBody(b, "main", reason)
            /\ ab' = [ab EXCEPT !.calls = Inc2(@), !.bodies = Inc2(@),
                                !.raced = @ \/ ui_abort_pc = "body",
                                !.sp = @ \/ (ab.bodies = 0 /\ InSpeech)]

\* ------------------------------------------------------- main loop thread
\* Application._process_scheduled_tasks: copy and clear the list under the mutex
ProcessScheduled ==
    /\ mainpc = "run" /\ batch = <<>> /\ main_tasks # <<>>
    /\ batch' = main_tasks
    /\ main_tasks' = <<>>
    /\ UNCHANGED <<loopq, keep_listening, wwd_paused, websocket, connected, wsst,
                   neterr, device_state, last_states, play_state>>
    /\ UNCHANGED <<mainpc, attempts, sl_res, streams_started>>
    /\ UNCHANGED <<audvars, connvars, thrvars, thingvars>>
    /\ UNCHANGED <<nev, iotvars>>

\* the next task of the batch is op; it is taken off
Take(op) ==
    /\ mainpc = "run" /\ batch # <<>> /\ Head(batch).op = op
    /\ batch' = Tail(batch)

\* lambda: self.set_device_state(state)
RunSetState ==
    /\ Take("set_state")
    /\ Commit(set_device_state(Cur, Head(batch).st))
    /\ at' = [s \in AbortSlots |-> AtEnd(s, at[s], main_tasks)]
    /\ UNCHANGED <<mainpc, attempts, sl_res, streams_started>>
    /\ UNCHANGED <<audvars, connvars, ct, clt, ui_abort_pc, thingvars>>
    /\ UNCHANGED <<nev, iotvars>>

\* Application._handle_tts_start
RunTtsStart ==
    /\ Take("tts_start")
    /\ aborted' = FALSE
    /\ decode_queue' = 0
    /\ Commit(IF device_state \in {IDLE, LISTENING}
              THEN schedule(Cur, SetState(SPEAKING, "-")) ELSE Cur)
    /\ ab' = [NoAb EXCEPT !.raced = (ui_abort_pc = "body")]
    /\ at' = [s \in AbortSlots |-> [at[s] EXCEPT !.cur = FALSE]]
    /\ UNCHANGED <<mainpc, attempts, sl_res, streams_started>>
    /\ UNCHANGED <<connvars, ct, clt, ui_abort_pc, thingvars>>
    /\ UNCHANGED <<nev, iotvars>>

\* Application._handle_tts_stop
RunTtsStop ==
    /\ Take("tts_stop")
    /\ Commit(IF device_state = SPEAKING THEN schedule(Cur, Task("drain")) ELSE Cur)
    /\ UNCHANGED <<mainpc, attempts, sl_res, streams_started>>
    /\ UNCHANGED <<audvars, connvars, thrvars, thingvars>>
    /\ UNCHANGED <<nev, iotvars>>

DrainAlwaysIdle(b) == schedule(b, SetState(IDLE, "drain"))

\* delayed_state_change below its polling loop
DrainFinish(b) ==
    IF b.kl
    THEN schedule(submit(b, Co("send_listen", AUTO_STOP, "-")), SetState(LISTENING, "drain"))
    ELSE schedule(b, SetState(IDLE, "drain"))

\* delayed_state_change: entry and first evaluation of the loop condition
RunDrain ==
    /\ Take("drain")
    /\ IF decode_queue # 0 /\ 0 < MaxWaitAttempts
       THEN mainpc' = "drain" /\ attempts' = 1 /\ Commit(Cur)
       ELSE UNCHANGED <<mainpc, attempts>> /\ Commit(DrainFinish(Cur))
    /\ UNCHANGED <<sl_res, streams_started>>
    /\ UNCHANGED <<audvars, connvars, thrvars, thingvars>>
    /\ UNCHANGED <<nev, iotvars>>

\* delayed_state_change: a 0.1 s sleep has passed, the loop condition is evaluated again
DrainPoll ==
    /\ mainpc = "drain"
    /\ UNCHANGED batch
    /\ IF decode_queue # 0 /\ attempts < MaxWaitAttempts
       THEN attempts' = attempts + 1 /\ UNCHANGED mainpc /\ Commit(Cur)
       ELSE attempts' = 0 /\ mainpc' = "run" /\ Commit(DrainFinish(Cur))
    /\ UNCHANGED <<sl_res, streams_started>>
    /\ UNCHANGED <<audvars, connvars, thrvars, thingvars>>
    /\ UNCHANGED <<nev, iotvars>>

\* a caller gave up on its open_audio_channel future; the coroutine goes on unobserved
OrphanQ(q, who) ==
    [i \in DOMAIN q |->
        IF q[i].op = "open" /\ q[i].who = who THEN [q[i] EXCEPT !.who = "orphan"] ELSE q[i]]
OrphanCn(who) ==
    [k \in Conns |-> IF cn[k].who = who THEN [cn[k] EXCEPT !.who = "orphan"] ELSE cn[k]]

\* Application._toggle_chat_state_impl
RunToggleImpl ==
    /\ Take("toggle_impl")
    /\ CASE device_state = IDLE ->
              /\ ct.pc = "none"
              /\ ct' = [pc |-> "start", res |-> "-"]
              /\ Commit(schedule(Cur, SetState(CONNECTING, "-")))
              /\ UNCHANGED <<audvars, clt, at>>
         [] device_state = SPEAKING ->
              /\ abort_speaking(Cur, NONE)
              /\ UNCHANGED <<ct, clt>>
         [] device_state = LISTENING ->
              /\ ~clt
              /\ clt' = TRUE
              /\ Commit(schedule(Cur, SetState(IDLE, "-")))
              /\ UNCHANGED <<audvars, ct, at>>
         [] device_state = CONNECTING ->
              /\ Commit(Cur)
              /\ UNCHANGED <<audvars, ct, clt, at>>
    /\ UNCHANGED <<mainpc, attempts, sl_res, streams_started>>
    /\ UNCHANGED <<connvars, ui_abort_pc, thingvars>>
    /\ UNCHANGED <<nev, iotvars>>

\* Application._start_listening_impl up to the wait on the open_audio_channel future
RunStartListeningImpl ==
    /\ Take("start_listening_impl")
    /\ LET b0 == [Cur EXCEPT !.kl = FALSE, !.wp = TRUE]
           b1 == schedule(b0, SetState(CONNECTING, "-"))
       IN CASE device_state = IDLE /\ ~is_audio_channel_opened(b0) ->
                 /\ mainpc' = "sl_wait"
                 /\ Commit(submit(b1, Co("open", "-", "sl")))
                 /\ UNCHANGED <<audvars, at>>
            [] device_state = IDLE /\ is_audio_channel_opened(b0) ->
                 /\ Commit(schedule(submit(b1, Co("send_listen", MANUAL, "-")),
                                    SetState(LISTENING, "-")))
                 /\ UNCHANGED <<mainpc, audvars, at>>
            [] device_state = SPEAKING ->
                 /\ abort_speaking(b0, WAKE_WORD_DETECTED)
                 /\ UNCHANGED mainpc
            [] device_state \in {CONNECTING, LISTENING} ->
                 /\ Commit(b0)
                 /\ UNCHANGED <<mainpc, audvars, at>>
    /\ UNCHANGED <<attempts, sl_res, streams_started>>
    /\ UNCHANGED <<connvars, ct, clt, ui_abort_pc, thingvars>>
    /\ UNCHANGED <<nev, iotvars>>

\* _start_listening_impl: future.result(timeout=10.0) returned
SlResult ==
    /\ mainpc = "sl_wait" /\ sl_res # "-"
    /\ mainpc' = "run" /\ sl_res' = "-"
    /\ UNCHANGED batch
    /\ Commit(IF sl_res = "ok"
              THEN schedule(submit(Cur, Co("send_listen", MANUAL, "-")), SetState(LISTENING, "-"))
              ELSE schedule(Cur, SetState(IDLE, "-")))
    /\ UNCHANGED <<attempts, streams_started>>
    /\ UNCHANGED <<audvars, connvars, thrvars, thingvars>>
    /\ UNCHANGED <<nev, iotvars>>

\* _start_listening_impl: future.result(timeout=10.0) raised
SlTimeout ==
    /\ Event
    /\ mainpc = "sl_wait" /\ sl_res = "-"
    /\ mainpc' = "run"
    /\ UNCHANGED batch
    /\ cn' = OrphanCn("sl")
    /\ Commit(schedule([Cur EXCEPT !.lq = OrphanQ(@, "sl")], SetState(IDLE, "-")))
    /\ UNCHANGED <<attempts, sl_res, streams_started>>
    /\ UNCHANGED <<audvars, hello_received, evset, session_id, nattempt, srv, desc_n>>
    /\ UNCHANGED <<thrvars, thingvars>>

StopListeningAnyState ==
    /\ Take("stop_listening_impl")
    /\ Commit(set_device_state(submit(Cur, Co("send_stop", "-", "-")), IDLE))
    /\ UNCHANGED <<mainpc, attempts, sl_res, streams_started>>
    /\ UNCHANGED <<audvars, connvars, thrvars, thingvars>>
    /\ UNCHANGED <<nev, iotvars>>

\* Application._stop_listening_impl
RunStopListeningImpl ==
    /\ Take("stop_listening_impl")
    /\ Commit(IF device_state = LISTENING
              THEN set_device_state(submit(Cur, Co("send_stop", "-", "-")), IDLE)
              ELSE Cur)
    /\ UNCHANGED <<mainpc, attempts, sl_res, streams_started>>
    /\ UNCHANGED <<audvars, connvars, thrvars, thingvars>>
    /\ UNCHANGED <<nev, iotvars>>

\* Application._handle_wake_word_detected
RunWakeWordDetected ==
    /\ Take("wake_word_detected")
    /\ CASE device_state = IDLE ->
              /\ Commit(submit(schedule([Cur EXCEPT !.wp = TRUE], SetState(CONNECTING, "-")),
                               Co("wake_connect", "-", "-")))
              /\ UNCHANGED <<audvars, at>>
         [] device_state = SPEAKING ->
              abort_speaking(Cur, WAKE_WORD_DETECTED)
         [] device_state \in {CONNECTING, LISTENING} ->
              /\ Commit(Cur)
              /\ UNCHANGED <<audvars, at>>
    /\ UNCHANGED <<mainpc, attempts, sl_res, streams_started>>
    /\ UNCHANGED <<connvars, ct, clt, ui_abort_pc, thingvars>>
    /\ UNCHANGED <<nev, iotvars>>

\* lambda: self.toggle_chat_state(), scheduled by process_abort
RunToggleCall ==
    /\ Take("toggle_call")
    /\ Commit(schedule([Cur EXCEPT !.wp = TRUE], Task("toggle_impl")))
    /\ UNCHANGED <<mainpc, attempts, sl_res, streams_started>>
    /\ UNCHANGED <<audvars, connvars, thrvars, thingvars>>
    /\ UNCHANGED <<nev, iotvars>>

\* Application._start_audio_streams
RunStartAudioStreams ==
    /\ Take("start_audio_streams")
    /\ streams_started' = TRUE
    /\ Commit(Cur)
    /\ UNCHANGED <<mainpc, attempts, sl_res>>
    /\ UNCHANGED <<audvars, connvars, thrvars, thingvars>>
    /\ UNCHANGED <<nev, iotvars>>

\* Application._handle_input_audio, on an AUDIO_INPUT_READY event with a frame to read
HandleInputAudio ==
    /\ mainpc = "run" /\ batch = <<>> /\ streams_started
    /\ device_state = LISTENING
    /\ is_audio_channel_opened(Cur)
    /\ ~Pending(loopq, "send_audio")
    /\ UNCHANGED batch
    /\ Commit(submit(Cur, Co("send_audio", "-", "-")))
    /\ UNCHANGED <<mainpc, attempts, sl_res, streams_started>>
    /\ UNCHANGED <<audvars, connvars, thrvars, thingvars>>
    /\ UNCHANGED <<nev, iotvars>>

\* _handle_output_audio without its state check
OutputAlways == TRUE

\* _handle_output_audio: `if self.device_state != DeviceState.SPEAKING: return`
OutputAllowed == device_state = SPEAKING

\* Application._handle_output_audio, on an AUDIO_OUTPUT_READY event (set by
\* _on_incoming_audio and by _audio_output_event_trigger); play_audio takes one or
\* more frames off the decode queue
HandleOutputAudio ==
    /\ mainpc = "run" /\ batch = <<>>
    /\ OutputAllowed
    /\ decode_queue > 0
    /\ \E k \in 1..decode_queue : decode_queue' = decode_queue - k
    /\ UNCHANGED batch
    /\ Commit([Cur EXCEPT !.ps = device_state])
    /\ UNCHANGED <<mainpc, attempts, sl_res, streams_started>>
    /\ UNCHANGED <<aborted, ab, connvars, thrvars, thingvars>>
    /\ UNCHANGED <<nev, iotvars>>

\* ------------------------------------------------- UI and detector threads
\* Application.toggle_chat_state called from the UI thread
Toggle ==
    /\ Event
    /\ ~Scheduled("toggle_impl")
    /\ UNCHANGED batch
    /\ Commit(schedule([Cur EXCEPT !.wp = TRUE], Task("toggle_impl")))
    /\ UNCHANGED <<mainpc, attempts, sl_res, streams_started>>
    /\ UNCHANGED <<audvars, connvars, thrvars, thingvars>>

\* Application.start_listening
StartListening ==
    /\ Event
    /\ ~Scheduled("start_listening_impl")
    /\ UNCHANGED batch
    /\ Commit(schedule(Cur, Task("start_listening_impl")))
    /\ UNCHANGED <<mainpc, attempts, sl_res, streams_started>>
    /\ UNCHANGED <<audvars, connvars, thrvars, thingvars>>

\* Application.stop_listening
StopListening ==
    /\ Event
    /\ ~Scheduled("stop_listening_impl")
    /\ UNCHANGED batch
    /\ Commit(schedule(Cur, Task("stop_listening_impl")))
    /\ UNCHANGED <<mainpc, attempts, sl_res, streams_started>>
    /\ UNCHANGED <<audvars, connvars, thrvars, thingvars>>

\* Application._on_wake_word_detected, called by the detector while it is not paused
WakeDetected ==
    /\ Event
    /\ ~wwd_paused
    /\ ~Scheduled("wake_word_detected")
    /\ UNCHANGED batch
    /\ Commit(schedule(Cur, Task("wake_word_detected")))
    /\ UNCHANGED <<mainpc, attempts, sl_res, streams_started>>
    /\ UNCHANGED <<audvars, connvars, thrvars, thingvars>>

\* the display's abort_callback on the UI thread: abort_speaking up to its guard
UiAbortCheck ==
    /\ Event
    /\ ui_abort_pc = "idle"
    /\ ui_abort_pc' = IF AlreadyAborted THEN "idle" ELSE "body"
    /\ ab' = [ab EXCEPT !.calls = Inc2(@)]
    /\ UNCHANGED batch
    /\ Commit(Cur)
    /\ UNCHANGED <<mainpc, attempts, sl_res, streams_started>>
    /\ UNCHANGED <<aborted, decode_queue, connvars, ct, clt, at, thingvars>>

\* the display's abort_callback on the UI thread: abort_speaking below its guard
UiAbortBody ==
    /\ ui_abort_pc = "body"
    /\ ui_abort_pc' = "idle"
    /\ UNCHANGED batch
    /\ AbortBody(Cur, "ui", WAKE_WORD_DETECTED)
    /\ ab' = [ab EXCEPT !.bodies = Inc2(@), !.sp = @ \/ (ab.bodies = 0 /\ InSpeech)]
    /\ UNCHANGED <<mainpc, attempts, sl_res, streams_started>>
    /\ UNCHANGED <<connvars, ct, clt, thingvars>>
    /\ UNCHANGED <<nev, iotvars>>

\* ----------------------------------------------------------- worker threads
\* the tail of connect_and_listen once the channel is open
CtNoListen(b) == schedule(b, SetState(LISTENING, "-"))

CtListen(b) ==
    schedule(submit([b EXCEPT !.kl = TRUE], Co("send_listen", AUTO_STOP, "-")),
             SetState(LISTENING, "-"))

\* connect_and_listen: thread start up to the wait on the open_audio_channel future
CtBegin ==
    /\ ct.pc = "start"
    /\ UNCHANGED batch
    /\ IF is_audio_channel_opened(Cur)
       THEN ct' = NoThread /\ Commit(CtListen(Cur))
       ELSE ct' = [pc |-> "wait", res |-> "-"] /\ Commit(submit(Cur, Co("open", "-", "toggle")))
    /\ UNCHANGED <<mainpc, attempts, sl_res, streams_started>>
    /\ UNCHANGED <<audvars, connvars, clt, at, ui_abort_pc, thingvars>>
    /\ UNCHANGED <<nev, iotvars>>

\* connect_and_listen: future.result(timeout=5.0) returned
CtResult ==
    /\ ct.pc = "wait" /\ ct.res # "-"
    /\ ct' = NoThread
    /\ UNCHANGED batch
    /\ Commit(IF ct.res = "ok" THEN CtListen(Cur) ELSE schedule(Cur, SetState(IDLE, "-")))
    /\ UNCHANGED <<mainpc, attempts, sl_res, streams_started>>
    /\ UNCHANGED <<audvars, connvars, clt, at, ui_abort_pc, thingvars>>
    /\ UNCHANGED <<nev, iotvars>>

\* connect_and_listen: future.result(timeout=5.0) raised
CtTimeout ==
    /\ Event
    /\ ct.pc = "wait" /\ ct.res = "-"
    /\ ct' = NoThread
    /\ UNCHANGED batch
    /\ cn' = OrphanCn("toggle")
    /\ Commit(schedule([Cur EXCEPT !.lq = OrphanQ(@, "toggle")], SetState(IDLE, "-")))
    /\ UNCHANGED <<mainpc, attempts, sl_res, streams_started>>
    /\ UNCHANGED <<audvars, hello_received, evset, session_id, nattempt, srv, desc_n>>
    /\ UNCHANGED <<clt, at, ui_abort_pc, thingvars>>

\* the close_audio_channel thread of _toggle_chat_state_impl
CloseThread ==
    /\ clt
    /\ clt' = FALSE
    /\ UNCHANGED batch
    /\ Commit(submit(Cur, Co("close", "-", "-")))
    /\ UNCHANGED <<mainpc, attempts, sl_res, streams_started>>
    /\ UNCHANGED <<audvars, connvars, ct, at, ui_abort_pc, thingvars>>
    /\ UNCHANGED <<nev, iotvars>>

\* process_abort: send_abort_speaking is posted to the event loop
AtSend(s) ==
    /\ at[s].pc = "start"
    /\ at' = [at EXCEPT ![s] = [@ EXCEPT !.pc = "wait", !.sent = "queued"]]
    /\ ab' = IF at[s].cur THEN [ab EXCEPT !.sub = Inc2(@)] ELSE ab
    /\ UNCHANGED batch
    /\ Commit(submit(Cur, Co("send_abort", at[s].reason, s)))
    /\ UNCHANGED <<mainpc, attempts, sl_res, streams_started>>
    /\ UNCHANGED <<aborted, decode_queue, connvars, ct, clt, ui_abort_pc, thingvars>>
    /\ UNCHANGED <<nev, iotvars>>

\* process_abort below the wait: the Idle transition is scheduled, then the restart decision
AtAfterWait(s, timedout) ==
    /\ at' = [at EXCEPT ![s] = [@ EXCEPT
                 !.pc = IF at[s].reason = WAKE_WORD_DETECTED /\ keep_listening
                           /\ is_audio_channel_opened(Cur)
                        THEN "sleep" ELSE "none",
                 !.to = timedout]]
    /\ ab' = IF at[s].cur THEN [ab EXCEPT !.idle = Inc2(@)] ELSE ab
    /\ UNCHANGED batch
    /\ Commit(schedule(Cur, SetState(IDLE, AbortTag(s))))
    /\ UNCHANGED <<mainpc, attempts, sl_res, streams_started>>
    /\ UNCHANGED <<aborted, decode_queue, connvars, ct, clt, ui_abort_pc, thingvars>>

\* process_abort without the wait on the send
AbortSendNotAwaited(s) == TRUE

\* process_abort: the future of send_abort_speaking has its result
AbortSendDone(s) == at[s].sent \in {"written", "dropped"}

\* process_abort: future.result(timeout=1.0) returned
AtResult(s) ==
    /\ at[s].pc = "wait" /\ AbortSendDone(s)
    /\ UNCHANGED <<nev, iotvars>>
    /\ AtAfterWait(s, FALSE)

\* process_abort: future.result(timeout=1.0) raised
AtTimeout(s) ==
    /\ at[s].pc = "wait" /\ at[s].sent = "queued"
    /\ UNCHANGED <<nev, iotvars>>
    /\ AtAfterWait(s, TRUE)

\* process_abort: after time.sleep(0.1), toggle_chat_state is scheduled
AtRestart(s) ==
    /\ at[s].pc = "sleep"
    /\ UNCHANGED batch
    /\ at' = [at EXCEPT ![s] = AtEnd(s, [@ EXCEPT !.pc = "none"], main_tasks)]
    /\ Commit(schedule(Cur, Task("toggle_call")))
    /\ UNCHANGED <<mainpc, attempts, sl_res, streams_started>>
    /\ UNCHANGED <<audvars, connvars, ct, clt, ui_abort_pc, thingvars>>
    /\ UNCHANGED <<nev, iotvars>>

\* ------------------------------------------------------ asyncio loop thread
JsonOps == {"send_listen", "send_stop", "send_abort", "send_desc", "send_states",
            "send_detect"}

\* the record Cur with the coroutine at the head of the loop taken off
Popped == [Cur EXCEPT !.lq = Tail(@)]

LoopHead(ops) == loopq # <<>> /\ Head(loopq).op \in ops

\* the caller of open_audio_channel / connect gets its result
Deliver(b, who, ok) ==
    /\ ct' = IF who = "toggle" THEN [ct EXCEPT !.res = IF ok THEN "ok" ELSE "fail"] ELSE ct
    /\ sl_res' = IF who = "sl" THEN (IF ok THEN "ok" ELSE "fail") ELSE sl_res
    /\ Commit(CASE who = "wake" /\ ok ->
                     \* _connect_and_start_listening goes on with its two sends
                     [b EXCEPT !.lq = <<Co("send_detect", "-", "wake"),
                                        Co("send_listen", AUTO_STOP, "wake")>> \o @]
                [] who = "wake" /\ ~ok ->
                     [schedule(b, SetState(IDLE, "-")) EXCEPT !.wp = FALSE]
                [] OTHER -> b)

\* WebsocketProtocol.connect up to `await websockets.connect(...)`
ConnectStart(b, who) ==
    /\ nattempt < MaxConn
    /\ nattempt' = nattempt + 1
    /\ hello_received' = nattempt + 1
    /\ cn' = [cn EXCEPT ![nattempt + 1] = [pc |-> "dial", who |-> who, ev |-> 0]]
    /\ Commit([b EXCEPT !.ne = "no"])

\* WebsocketProtocol.send_audio of a frame posted by _handle_input_audio
LoopSendAudio ==
    /\ LoopHead({"send_audio"})
    /\ UNCHANGED batch
    /\ Commit(send_audio(Popped))
    /\ UNCHANGED <<mainvars, audvars, connvars, thrvars, thingvars>>
    /\ UNCHANGED <<nev, iotvars>>

\* Protocol.send_* of a JSON control message: send_text, then what its coroutine does next
LoopSendText ==
    /\ LoopHead(JsonOps)
    /\ UNCHANGED batch
    /\ LET c == Head(loopq)
           b1 == send_text(Popped)
           b2 == CASE c.who = "wake" /\ c.op = "send_detect" -> [b1 EXCEPT !.kl = TRUE]
                   [] c.who = "wake" /\ c.op = "send_listen" ->
                          schedule(b1, SetState(LISTENING, "-"))
                   [] OTHER -> b1
       IN /\ Commit(b2)
          /\ desc_n' = IF c.op = "send_desc" /\ TextWritten(Popped)
                       THEN [desc_n EXCEPT ![websocket] = Inc2(@)] ELSE desc_n
          /\ at' = IF c.op = "send_abort"
                   THEN [at EXCEPT ![c.who] =
                            AtEnd(c.who, [@ EXCEPT !.sent = IF TextWritten(Popped)
                                                           THEN "written" ELSE "dropped"],
                                  b2.mt)]
                   ELSE at
    /\ UNCHANGED <<mainvars, audvars, ct, clt, ui_abort_pc, thingvars>>
    /\ UNCHANGED <<hello_received, evset, session_id, nattempt, cn, srv>>
    /\ UNCHANGED <<nev, iotvars>>

\* WebsocketProtocol.close_audio_channel posted by _on_network_error or the close thread
LoopClose ==
    /\ LoopHead({"close"})
    /\ UNCHANGED batch
    /\ Commit(close_audio_channel(Popped))
    /\ UNCHANGED <<mainvars, audvars, connvars, thrvars, thingvars>>
    /\ UNCHANGED <<nev, iotvars>>

\* close_audio_channel when `await self.websocket.close()` raises: the except branch
\* logs the error; the two assignments and the callback after the await are skipped
close_raised(b) == b

\* close_audio_channel runs and websocket.close() raises
LoopCloseFails ==
    /\ Event
    /\ LoopHead({"close"}) /\ websocket # 0
    /\ UNCHANGED batch
    /\ Commit(close_raised(Popped))
    /\ UNCHANGED <<mainvars, audvars, connvars, thrvars, thingvars>>

\* WebsocketProtocol.open_audio_channel
LoopOpen ==
    /\ LoopHead({"open"})
    /\ UNCHANGED batch
    /\ IF connected
       THEN /\ Deliver(Popped, Head(loopq).who, TRUE)
            /\ UNCHANGED <<hello_received, nattempt, cn>>
       ELSE /\ ConnectStart(Popped, Head(loopq).who)
            /\ UNCHANGED <<ct, sl_res>>
    /\ UNCHANGED <<mainpc, attempts, streams_started>>
    /\ UNCHANGED <<audvars, evset, session_id, srv, desc_n, clt, at, ui_abort_pc, thingvars>>
    /\ UNCHANGED <<nev, iotvars>>

\* Application._connect_and_start_listening: it calls connect() whatever the channel is
LoopWakeConnect ==
    /\ LoopHead({"wake_connect"})
    /\ UNCHANGED batch
    /\ ConnectStart(Popped, "wake")
    /\ UNCHANGED <<mainvars, audvars, evset, session_id, srv, desc_n, thrvars, thingvars>>
    /\ UNCHANGED <<nev, iotvars>>

\* connect: websockets.connect returned; the handler task is created, the client hello
\* is written and the coroutine waits on the Event that hello_received holds now
ConnectEstablished(k) ==
    /\ cn[k].pc = "dial"
    /\ cn' = [cn EXCEPT ![k] = [@ EXCEPT !.pc = "hello_wait", !.ev = hello_received]]
    /\ UNCHANGED batch
    /\ Commit([Cur EXCEPT !.ws = k, !.wst[k] = "open", !.ne = "no"])
    /\ UNCHANGED <<mainvars, audvars, thrvars, thingvars>>
    /\ UNCHANGED <<hello_received, evset, session_id, nattempt, srv, desc_n>>
    /\ UNCHANGED <<nev, iotvars>>

\* connect: websockets.connect raised
ConnectFail(k) ==
    /\ Event
    /\ cn[k].pc = "dial"
    /\ cn' = [cn EXCEPT ![k] = [pc |-> "done", who |-> "-", ev |-> 0]]
    /\ UNCHANGED batch
    /\ Deliver(_on_network_error(Cur), cn[k].who, FALSE)
    /\ UNCHANGED <<mainpc, attempts, streams_started>>
    /\ UNCHANGED <<audvars, clt, at, ui_abort_pc, thingvars>>
    /\ UNCHANGED <<hello_received, evset, session_id, nattempt, srv, desc_n>>

\* connect: hello_received.wait() returned within 10 s
HelloDone(k) ==
    /\ cn[k].pc = "hello_wait" /\ cn[k].ev \in evset
    /\ cn' = [cn EXCEPT ![k] = [pc |-> "done", who |-> "-", ev |-> 0]]
    /\ UNCHANGED batch
    /\ Deliver([Cur EXCEPT !.co = TRUE, !.ne = "no"], cn[k].who, TRUE)
    /\ UNCHANGED <<mainpc, attempts, streams_started>>
    /\ UNCHANGED <<audvars, clt, at, ui_abort_pc, thingvars>>
    /\ UNCHANGED <<hello_received, evset, session_id, nattempt, srv, desc_n>>
    /\ UNCHANGED <<nev, iotvars>>

\* connect: asyncio.TimeoutError from wait_for(..., timeout=10.0)
HelloTimeout(k) ==
    /\ Event
    /\ cn[k].pc = "hello_wait" /\ cn[k].ev \notin evset
    /\ cn' = [cn EXCEPT ![k] = [pc |-> "done", who |-> "-", ev |-> 0]]
    /\ UNCHANGED batch
    /\ Deliver(_on_network_error(Cur), cn[k].who, FALSE)
    /\ UNCHANGED <<mainpc, attempts, streams_started>>
    /\ UNCHANGED <<audvars, clt, at, ui_abort_pc, thingvars>>
    /\ UNCHANGED <<hello_received, evset, session_id, nattempt, srv, desc_n>>

\* Application._on_audio_channel_opened
_on_audio_channel_opened(b) ==
    _update_iot_states(submit(schedule(b, Task("start_audio_streams")),
                              Co("send_desc", "-", "-")),
                       FALSE)

\* _message_handler of connection c is receiving
Receiving(c) == wsst[c] = "open"

\* the transport field of a server hello; "none": the field is missing
Transports == {"websocket", "udp", "none"}

AnyTransport(transport) == TRUE

\* _handle_server_hello: `if not transport or transport != "websocket": return`
TransportOk(transport) == transport = "websocket"

\* _message_handler -> _handle_server_hello: a server hello arrives on connection c.
\* srv[c] records what the server sent: "helloed" for transport "websocket",
\* "rejected" for any other hello.
HandleServerHello(c, transport) ==
    /\ Receiving(c) /\ srv[c] # "helloed"
    /\ srv' = [srv EXCEPT ![c] = IF transport = "websocket" THEN "helloed" ELSE "rejected"]
    /\ UNCHANGED batch
    /\ IF TransportOk(transport)
       THEN /\ evset' = evset \cup {hello_received}
            /\ Commit(_on_audio_channel_opened(Cur))
       ELSE /\ evset' = evset
            /\ Commit(Cur)
    /\ UNCHANGED <<mainvars, audvars, thrvars, thingvars>>
    /\ UNCHANGED <<hello_received, session_id, nattempt, cn, desc_n>>

\* the server answers the client hello with transport "websocket"
RecvHello(c) == HandleServerHello(c, "websocket") /\ UNCHANGED <<nev, iotvars>>

\* the server answers with a hello whose transport is missing or different
RecvBadHello(c) == Event /\ \E t \in Transports \ {"websocket"} : HandleServerHello(c, t)

\* _on_incoming_json -> _handle_tts_message, state "start" or "stop"
RecvTts(c, op) ==
    /\ Event
    /\ Receiving(c) /\ srv[c] = "helloed"
    /\ ~Scheduled(op)
    /\ UNCHANGED batch
    /\ Commit(schedule(Cur, Task(op)))
    /\ UNCHANGED <<mainvars, audvars, connvars, thrvars, thingvars>>

\* Application._on_incoming_audio
RecvAudio(c) ==
    /\ Receiving(c) /\ srv[c] = "helloed"
    /\ device_state = SPEAKING
    /\ decode_queue < MaxQueue
    /\ decode_queue' = decode_queue + 1
    /\ UNCHANGED batch
    /\ Commit(Cur)
    /\ UNCHANGED <<mainvars, aborted, ab, connvars, thrvars, thingvars>>
    /\ UNCHANGED <<nev, iotvars>>

\* _handle_iot_message: Lamp TurnOn / TurnOff
RecvIotLamp(c) ==
    /\ Event
    /\ Receiving(c) /\ srv[c] = "helloed"
    /\ lamp_power' = ~lamp_power
    /\ UNCHANGED batch
    /\ Commit(Cur)
    /\ UNCHANGED <<mainvars, audvars, connvars, thrvars>>

\* _handle_iot_message: Camera.capture_frame_to_base64; the action is the case where the
\* capture device is opened and a frame is read (the other case returns None at once)
RecvIotCapture(c) ==
    /\ Event
    /\ Receiving(c) /\ srv[c] = "helloed"
    /\ ~Pending(loopq, "send_detect")
    /\ UNCHANGED batch
    /\ Commit(submit(set_device_state(Cur, LISTENING), Co("send_detect", "-", "-")))
    /\ UNCHANGED <<mainvars, audvars, connvars, thrvars, thingvars>>

\* the commands an iot message may carry: Lamp.TurnOn, Lamp.TurnOff, a thing that is
\* not registered, Lamp with a method it does not have, and Speaker.SetVolume with a
\* volume in 0..100, with a volume outside, and without the required parameter
IotCommands == {"lamp_on", "lamp_off", "no_thing", "no_method",
                "vol_ok", "vol_bad", "vol_missing"}
IotMessages == UNION {[1..n -> IotCommands] : n \in 1..MaxCommands}

\* ThingManager.invoke -> Thing.invoke -> Method.invoke -> callback, on the things'
\* state st: the state afterwards and "ok" (a result was returned) or "raised"
thing_invoke(st, cmd) ==
    CASE cmd = "lamp_on" -> [lamp |-> TRUE, spk |-> st.spk, res |-> "ok"]
      [] cmd = "lamp_off" -> [lamp |-> FALSE, spk |-> st.spk, res |-> "ok"]
      [] cmd \in {"no_thing", "no_method"} ->
             [lamp |-> st.lamp, spk |-> st.spk, res |-> "raised"]
      [] OTHER ->
             \* Method.invoke sets the supplied value, tests the required parameter,
             \* then Speaker._set_volume raises unless 0 <= volume <= 100
             LET param == CASE cmd = "vol_ok" -> "in"
                            [] cmd = "vol_bad" -> "out"
                            [] OTHER -> st.spk.param
             IN CASE param = "none" -> [lamp |-> st.lamp, spk |-> st.spk, res |-> "raised"]
                  [] param = "in" ->
                         [lamp |-> st.lamp, spk |-> [param |-> "in", volume |-> "set"],
                          res |-> "ok"]
                  [] OTHER ->
                         [lamp |-> st.lamp, spk |-> [st.spk EXCEPT !.param = "out"],
                          res |-> "raised"]

StopsOnError(res) == res = "ok"

\* _handle_iot_message: the try/except inside the loop; the loop goes on after res
Continues(res) == TRUE

\* _handle_iot_message: the loop over the commands from index i on
RECURSIVE DispatchCommands(_, _, _, _)
DispatchCommands(i, commands, st, done) ==
    IF i > Len(commands) THEN [st |-> st, done |-> done]
    ELSE LET r == thing_invoke(st, commands[i])
             st1 == [lamp |-> r.lamp, spk |-> r.spk]
         IN IF Continues(r.res)
            THEN DispatchCommands(i + 1, commands, st1, Append(done, r.res))
            ELSE [st |-> st1, done |-> Append(done, r.res)]

\* _on_incoming_json -> _handle_iot_message of a message with these commands
RecvIotMessage(c, commands) ==
    /\ nev < MaxEvents /\ nev' = nev + 1
    /\ Receiving(c) /\ srv[c] = "helloed"
    /\ LET r == DispatchCommands(1, commands, [lamp |-> lamp_power, spk |-> spk], <<>>)
       IN /\ lamp_power' = r.st.lamp
          /\ spk' = r.st.spk
          /\ iot_log' = [msg |-> commands, done |-> r.done]
    /\ UNCHANGED batch
    /\ Commit(Cur)
    /\ UNCHANGED <<mainvars, audvars, connvars, thrvars>>
    /\ UNCHANGED <<things, tm_last_states, tm_ret, tm_snap, method, boot, rx, life, sch, ref>>

\* the text frames the server may send after its hello: text that is not JSON, JSON
\* that is not an object, objects of an unknown type or without a type, and the two
\* tts messages
TextFrames == {"not_json", "not_object", "unknown_type", "no_type", "tts_start", "tts_stop"}

\* json.loads(message): err for JSONDecodeError, else the value: is it an object, and
\* its "type" and "state" entries
json_loads(frame) ==
    CASE frame = "not_json" -> [err |-> TRUE, obj |-> FALSE, type |-> "-", state |-> "-"]
      [] frame = "not_object" -> [err |-> FALSE, obj |-> FALSE, type |-> "-", state |-> "-"]
      [] frame = "unknown_type" -> [err |-> FALSE, obj |-> TRUE, type |-> "other", state |-> "-"]
      [] frame = "no_type" -> [err |-> FALSE, obj |-> TRUE, type |-> "", state |-> "-"]
      [] frame = "tts_start" -> [err |-> FALSE, obj |-> TRUE, type |-> "tts", state |-> "start"]
      [] OTHER -> [err |-> FALSE, obj |-> TRUE, type |-> "tts", state |-> "stop"]

\* Application._on_incoming_json, _handle_tts_message
_on_incoming_json(b, data) ==
    IF data.type = "tts"
    THEN IF data.state = "start" THEN schedule(b, Task("tts_start"))
         ELSE IF data.state = "stop" THEN schedule(b, Task("tts_stop"))
         ELSE b
    ELSE b

\* _message_handler: `except Exception` around the receive loop
handler_failed(b, c) == _on_network_error([b EXCEPT !.wst[c] = "closed", !.co = FALSE])

decode_error_fatal(b, c) == handler_failed(b, c)

\* _message_handler: `except json.JSONDecodeError` inside the receive loop
invalid_json(b, c) == b

\* _message_handler: one text frame arrives on connection c
RecvText(c, frame) ==
    /\ nev < MaxEvents /\ nev' = nev + 1
    /\ Receiving(c) /\ srv[c] = "helloed"
    /\ frame \in {"tts_start", "tts_stop"} => ~Scheduled(frame)
    /\ rx' = Append(rx, frame)
    /\ UNCHANGED batch
    /\ LET data == json_loads(frame)
       IN Commit(IF data.err THEN invalid_json(Cur, c)
                 ELSE IF ~data.obj THEN handler_failed(Cur, c)
                 ELSE _on_incoming_json(Cur, data))
    /\ UNCHANGED <<mainvars, audvars, connvars, thrvars, thingvars>>
    /\ UNCHANGED <<things, tm_last_states, tm_ret, tm_snap, method, spk, iot_log, boot, life,
                   sch, ref>>

\* the connection is lost (peer or network); the client has not noticed yet
NetBreak(c) ==
    /\ Event
    /\ wsst[c] = "open"
    /\ UNCHANGED batch
    /\ Commit([Cur EXCEPT !.wst[c] = "broken"])
    /\ UNCHANGED <<mainvars, audvars, connvars, thrvars, thingvars>>

\* _message_handler: except websockets.ConnectionClosed
RecvClosed(c) ==
    /\ wsst[c] = "broken"
    /\ UNCHANGED batch
    /\ Commit(_on_audio_channel_closed([Cur EXCEPT !.wst[c] = "closed", !.co = FALSE]))
    /\ UNCHANGED <<mainvars, audvars, connvars, thrvars, thingvars>>
    /\ UNCHANGED <<nev, iotvars>>

\* _message_handler: except Exception
RecvError(c) ==
    /\ wsst[c] = "broken"
    /\ UNCHANGED batch
    /\ Commit(_on_network_error([Cur EXCEPT !.wst[c] = "closed", !.co = FALSE]))
    /\ UNCHANGED <<mainvars, audvars, connvars, thrvars, thingvars>>
    /\ UNCHANGED <<nev, iotvars>>

\* ------------------------------------------------------------- schedule
SchedStep(n) ==
    /\ sch' = n
    /\ UNCHANGED appvars
    /\ UNCHANGED <<things, tm_last_states, tm_ret, tm_snap, method, spk, iot_log, boot, rx,
                   life, ref>>

\* schedule: `with self.mutex: self.main_tasks.append(callback)`
appended(n) ==
    [n EXCEPT !.submitted = @ + 1, !.tasks = Append(@, n.submitted + 1),
              !.raced = @ \/ n.mpc = "cleared"]

\* schedule called by thread t: the append
ScheduleAppend(t) ==
    /\ sch.callers[t] = "idle" /\ sch.submitted < MaxSubmit
    /\ SchedStep([appended(sch) EXCEPT !.callers[t] = "appended"])

ScheduleForgets(t) ==
    /\ sch.callers[t] = "appended"
    /\ SchedStep([sch EXCEPT !.callers[t] = "idle"])

\* schedule called by thread t: `self.events[EventType.SCHEDULE_EVENT].set()`
ScheduleSet(t) ==
    /\ sch.callers[t] = "appended"
    /\ SchedStep([sch EXCEPT !.ev = TRUE, !.callers[t] = "idle"])

\* _main_loop: `if event.is_set(): event.clear()` for SCHEDULE_EVENT
MainLoopClear ==
    /\ sch.mpc = "wait" /\ sch.ev
    /\ SchedStep([sch EXCEPT !.ev = FALSE, !.mpc = "cleared"])

\* _process_scheduled_tasks: copy and clear main_tasks under the mutex
ProcessCopy ==
    /\ sch.mpc = "cleared"
    /\ SchedStep([sch EXCEPT !.btch = sch.tasks, !.tasks = <<>>, !.mpc = "exec"])

\* _process_scheduled_tasks: the next task of the copy runs; again: the task itself
\* calls schedule
ProcessRun(again) ==
    /\ sch.mpc = "exec" /\ sch.btch # <<>>
    /\ again => sch.submitted < MaxSubmit
    /\ LET n == [sch EXCEPT !.done = Append(@, Head(sch.btch)), !.btch = Tail(@)]
       IN SchedStep(IF again THEN [appended(n) EXCEPT !.ev = TRUE] ELSE n)

\* the task that raises, as history
raised(n) ==
    [n EXCEPT !.failed = @ \cup {Head(n.btch)},
              !.rest = IF Len(n.btch) - 1 > @ THEN Len(n.btch) - 1 ELSE @]

\* a task raises and nothing catches: the exception leaves _process_scheduled_tasks
\* and _main_loop, the rest of the copy is dropped and the thread ends
uncaught(n) == [raised(n) EXCEPT !.done = Append(@, Head(n.btch)), !.btch = <<>>,
                                 !.mpc = "dead"]

\* _process_scheduled_tasks: `except Exception` around task(): the error is logged and
\* the for loop goes on with the next task
caught(n) == [raised(n) EXCEPT !.done = Append(@, Head(n.btch)), !.btch = Tail(@)]

\* _process_scheduled_tasks: the next task of the copy runs and raises an Exception;
\* again: it has called schedule before
ProcessRaises(again) ==
    /\ sch.mpc = "exec" /\ sch.btch # <<>>
    /\ again => sch.submitted < MaxSubmit
    /\ SchedStep(IF again THEN [appended(caught(sch)) EXCEPT !.ev = TRUE] ELSE caught(sch))

\* _process_scheduled_tasks returns; the main loop sleeps and looks at the events again
ProcessEnd ==
    /\ sch.mpc = "exec" /\ sch.btch = <<>>
    /\ SchedStep([sch EXCEPT !.mpc = "wait"])

\* ------------------------------------------------------ reference buffer
RefStep(n) ==
    /\ ref' = n
    /\ UNCHANGED appvars
    /\ UNCHANGED <<things, tm_last_states, tm_ret, tm_snap, method, spk, iot_log, boot, rx,
                   life, sch>>

\* buf[:n] for 0 < n
KeepOldest(buf, n) == SubSeq(buf, 1, IF n < Len(buf) THEN n ELSE Len(buf))

\* the Python slice buf[-n:]: the last n elements, and the whole list for n = 0
KeepNewest(buf, n) ==
    IF n = 0 \/ n >= Len(buf) THEN buf ELSE SubSeq(buf, Len(buf) - n + 1, Len(buf))

\* add_reference_data: `max_buffer_size = self.sample_rate // self.frame_size`
max_buffer_size(r) == r.sample_rate \div r.frame_size

\* WebRTCProcessor.add_reference_data
add_reference_data(r, frame) ==
    LET buf == Append(r.buf, frame)
    IN [r EXCEPT !.added = frame,
                 !.buf = IF Len(buf) > max_buffer_size(r)
                         THEN KeepNewest(buf, max_buffer_size(r)) ELSE buf]

\* WebRTCProcessor.get_reference_data
get_reference_data(r) ==
    IF r.buf # <<>>
    THEN [r EXCEPT !.ret = Head(r.buf), !.out = Head(r.buf), !.buf = Tail(r.buf)]
    ELSE [r EXCEPT !.ret = None]

AddReferenceData ==
    /\ ref.added < MaxFrames
    /\ RefStep(add_reference_data(ref, ref.added + 1))

GetReferenceData ==
    /\ ref' = get_reference_data(ref)
    /\ UNCHANGED appvars
    /\ UNCHANGED <<things, tm_last_states, tm_ret, tm_snap, method, spk, iot_log, boot, rx,
                   life, sch>>

\* ------------------------------------------------------------- shutdown
LifeStep(l) ==
    /\ life' = l
    /\ UNCHANGED <<things, tm_last_states, tm_ret, tm_snap, method, spk, iot_log, boot, rx, sch, ref>>

\* Application.shutdown up to the join: running = False, the codec is closed,
\* close_audio_channel is posted to the loop and loop.stop right after it
Shutdown ==
    /\ life.sd = "none"
    /\ LifeStep([life EXCEPT !.running = FALSE, !.sd = "joining", !.codec = "closed"])
    /\ UNCHANGED batch
    /\ Commit(submit(submit(Cur, Co("close", "-", "shutdown")), Co("stop", "-", "-")))
    /\ UNCHANGED <<mainvars, audvars, connvars, thrvars, thingvars, nev>>

\* Application.shutdown from the join on: loop_thread.join(timeout=1.0) returns, the
\* thread ended or not, the detector is stopped, shutdown returns
ShutdownReturn ==
    /\ life.sd = "joining"
    /\ LifeStep([life EXCEPT !.sd = "returned", !.wwd = "stopped"])
    /\ UNCHANGED appvars

\* loop.stop runs: run_forever leaves after the iteration in which stop ran. The
\* coroutine posted just before stop starts one iteration after its own callback, so
\* stop can run in the iteration of that callback and the coroutine never starts.
LoopStop ==
    /\ life.loop = "on" /\ loopq # <<>>
    /\ \/ Head(loopq).op = "stop"
       \/ /\ Len(loopq) >= 2 /\ loopq[2].op = "stop"
          /\ loopq[1] = Co("close", "-", "shutdown")
    /\ LifeStep([life EXCEPT !.loop = "stopped"])
    /\ UNCHANGED appvars

\* _main_loop: `while self.running` is false, the thread ends
MainExit ==
    /\ life.main = "on" /\ ~life.running
    /\ mainpc = "run" /\ batch = <<>>
    /\ LifeStep([life EXCEPT !.main = "exited"])
    /\ UNCHANGED appvars

\* ------------------------------------------------------------ specification
MainStep ==
    \/ ProcessScheduled \/ RunSetState \/ RunTtsStart \/ RunTtsStop \/ RunDrain
    \/ DrainPoll \/ RunToggleImpl \/ RunStartListeningImpl \/ SlResult \/ SlTimeout
    \/ RunStopListeningImpl \/ RunWakeWordDetected \/ RunToggleCall
    \/ RunStartAudioStreams \/ HandleInputAudio \/ HandleOutputAudio

UserStep ==
    \/ Toggle \/ StartListening \/ StopListening \/ WakeDetected
    \/ UiAbortCheck \/ UiAbortBody

ThreadStep ==
    \/ CtBegin \/ CtResult \/ CtTimeout \/ CloseThread
    \/ \E s \in AbortSlots : AtSend(s) \/ AtResult(s) \/ AtTimeout(s) \/ AtRestart(s)

LoopStep ==
    \/ LoopSendAudio \/ LoopSendText \/ LoopClose \/ LoopOpen \/ LoopWakeConnect
    \/ \E k \in Conns : ConnectEstablished(k) \/ ConnectFail(k) \/ HelloDone(k)
                        \/ HelloTimeout(k)
    \/ \E c \in Conns : RecvHello(c) \/ RecvTts(c, "tts_start") \/ RecvTts(c, "tts_stop")
                        \/ RecvAudio(c) \/ RecvIotLamp(c)
                        \/ RecvIotCapture(c) \/ RecvClosed(c) \/ RecvError(c)

Next == MainStep \/ UserStep \/ ThreadStep \/ LoopStep \/ \E c \in Conns : NetBreak(c)

Spec == Init /\ [][Next]_vars

\* The state of an established session: the user toggled once from the initial state,
\* the channel opened and the orchestrator is listening in auto mode.
SessionEstablished ==
    /\ device_state = LISTENING /\ keep_listening = TRUE /\ aborted = FALSE
    /\ main_tasks = <<>> /\ batch = <<>> /\ mainpc = "run" /\ attempts = 0
    /\ sl_res = "-" /\ streams_started = TRUE
    /\ wwd_paused = TRUE
    /\ decode_queue = 0
    /\ websocket = 1 /\ connected = TRUE /\ hello_received = 1 /\ evset = {1}
    /\ session_id = 0
    /\ wsst = [c \in Conns |-> IF c = 1 THEN "open" ELSE "none"]
    /\ nattempt = 1
    /\ cn = [c \in Conns |-> IF c = 1 THEN [pc |-> "done", who |-> "-", ev |-> 0]
                                      ELSE NoConnect]
    /\ srv = [c \in Conns |-> IF c = 1 THEN "helloed" ELSE "new"]
    /\ loopq = <<>>
    /\ ct = NoThread /\ clt = FALSE
    /\ at = [s \in AbortSlots |-> NoAbort]
    /\ ui_abort_pc = "idle"
    /\ lamp_power = FALSE /\ last_states = "off"
    /\ play_state = "none"
    /\ desc_n = [c \in Conns |-> IF c = 1 THEN 1 ELSE 0]
    /\ neterr = "no"
    /\ ab = NoAb

\* The same program from an established session, with the whole event budget ahead.
InitSession == SessionEstablished /\ nev = 0 /\ IotIdle

SpecSession == InitSession /\ [][Next]_vars

\* ------------------------------------------------ scenario: wake during TTS
\* An established session in which tts.start was handled: speaking, auto mode, the
\* detector resumed by set_device_state(SPEAKING).
SessionSpeaking ==
    /\ device_state = SPEAKING /\ keep_listening = TRUE /\ aborted = FALSE
    /\ main_tasks = <<>> /\ batch = <<>> /\ mainpc = "run" /\ attempts = 0
    /\ sl_res = "-" /\ streams_started = TRUE
    /\ wwd_paused = FALSE
    /\ decode_queue = 0
    /\ websocket = 1 /\ connected = TRUE /\ hello_received = 1 /\ evset = {1}
    /\ session_id = 0
    /\ wsst = [c \in Conns |-> IF c = 1 THEN "open" ELSE "none"]
    /\ nattempt = 1
    /\ cn = [c \in Conns |-> IF c = 1 THEN [pc |-> "done", who |-> "-", ev |-> 0]
                                      ELSE NoConnect]
    /\ srv = [c \in Conns |-> IF c = 1 THEN "helloed" ELSE "new"]
    /\ loopq = <<>>
    /\ ct = NoThread /\ clt = FALSE
    /\ at = [s \in AbortSlots |-> NoAbort]
    /\ ui_abort_pc = "idle"
    /\ lamp_power = FALSE /\ last_states = "off"
    /\ play_state = "none"
    /\ desc_n = [c \in Conns |-> IF c = 1 THEN 1 ELSE 0]
    /\ neterr = "no"
    /\ ab = NoAb

\* two events are left: the wake detection and one server message
InitWake == SessionSpeaking /\ nev = MaxEvents - 2 /\ IotIdle

\* the detector fires while speaking in auto mode with the channel open
WakeWhileSpeaking ==
    /\ device_state = SPEAKING /\ keep_listening /\ is_audio_channel_opened(Cur)
    /\ ~aborted
    /\ WakeDetected

\* the server ends the utterance
ServerTtsStop == RecvTts(1, "tts_stop")

ServerAudio == RecvAudio(1)

NextWake ==
    \/ WakeWhileSpeaking \/ ServerTtsStop \/ ServerAudio
    \/ ProcessScheduled \/ RunSetState \/ RunTtsStop \/ RunDrain \/ DrainPoll
    \/ RunWakeWordDetected \/ RunToggleCall \/ RunToggleImpl
    \/ HandleInputAudio \/ HandleOutputAudio
    \/ CtBegin \/ CloseThread
    \/ AtSend("main") \/ AtResult("main") \/ AtTimeout("main") \/ AtRestart("main")
    \/ LoopSendAudio \/ LoopSendText \/ LoopClose

SpecWake == InitWake /\ [][NextWake]_vars

\* ------------------------------------------------ scenario: two aborts at once
\* Speaking: the user presses the display's abort button while a toggle or a wake
\* word is on its way to the main loop.
InitAbortRace == SessionSpeaking /\ nev = MaxEvents - 2 /\ IotIdle

NextAbortRace ==
    \/ UiAbortCheck \/ UiAbortBody \/ Toggle \/ WakeDetected
    \/ ProcessScheduled \/ RunSetState \/ RunToggleImpl \/ RunWakeWordDetected
    \/ RunToggleCall \/ HandleInputAudio
    \/ CtBegin \/ CloseThread
    \/ \E s \in AbortSlots : AtSend(s) \/ AtResult(s) \/ AtTimeout(s) \/ AtRestart(s)
    \/ LoopSendAudio \/ LoopSendText \/ LoopClose

SpecAbortRace == InitAbortRace /\ [][NextAbortRace]_vars

\* ------------------------------------------------ the thing registry on its own
\* any registry add_thing can build, nothing cached, nothing invoked
InitThings ==
    /\ AppInit
    /\ things \in Registries
    /\ tm_last_states = [n \in ThingNames |-> Absent]
    /\ tm_ret = NoRet
    /\ tm_snap = [i \in DOMAIN things |-> things[i].state]
    /\ method = NoMethod
    /\ spk = NoSpeaker
    /\ iot_log = NoIot
    /\ boot = Booted /\ rx = <<>> /\ life = Alive /\ sch = SchedIdle
    /\ ref = NewProcessor(sample_rate, frame_size)

NextThings ==
    \/ \E delta \in BOOLEAN : GetStatesJson(delta)
    \/ \E i \in 1..MaxThings, v \in Values : SetProperty(i, v)
    \/ \E S \in SUBSET ParamNames : \E f \in [S -> 1..MaxValue] : MethodInvoke(S, f)

SpecThings == InitThings /\ [][NextThings]_vars

\* ---------------------------------------------------------------- properties
\* the step writes the JSON message at the head of the loop to the websocket
WritesJson == LoopHead(JsonOps) /\ TextWritten(Cur) /\ loopq' = Tail(loopq)

\* the step writes the audio frame at the head of the loop to the websocket
WritesAudio == LoopHead({"send_audio"}) /\ AudioWritten(Cur) /\ loopq' = Tail(loopq)

\* the main thread runs the lambda at the head of the batch, scheduled by src
RunsTagged(src) ==
    /\ mainpc = "run" /\ batch # <<>> /\ Head(batch).src = src
    /\ batch' = Tail(batch)

TagScheduled(s) == TagPending(main_tasks, s) \/ TagPending(batch, s)

\* nothing is in progress: no task, coroutine, thread or connect is pending
Quiescent ==
    /\ main_tasks = <<>> /\ batch = <<>> /\ mainpc = "run" /\ loopq = <<>>
    /\ ct.pc = "none" /\ ~clt /\ ui_abort_pc = "idle"
    /\ \A s \in AbortSlots : at[s].pc = "none"
    /\ \A k \in Conns : cn[k].pc \in {"none", "done"}
    /\ \A c \in Conns : wsst[c] # "broken"

\* the session id the server assigns in its hello on connection c
ServerSessionId(c) == c

\* the transitions of the state table, with Idle -> Speaking of the tts.start rule
Legal ==
    {<<IDLE, CONNECTING>>, <<CONNECTING, LISTENING>>, <<CONNECTING, IDLE>>,
     <<LISTENING, IDLE>>, <<LISTENING, SPEAKING>>, <<SPEAKING, LISTENING>>,
     <<SPEAKING, IDLE>>, <<IDLE, SPEAKING>>}

\* C1: every change of device_state is one of the legal transitions.
C1_LegalTransitions ==
    [][device_state' # device_state => <<device_state, device_state'>> \in Legal]_vars

\* C2: in every reachable state the wake detector is paused if and only if
\* device_state is Listening.
C2_PausedIffListening == wwd_paused <=> device_state = LISTENING

\* C3: whenever send_audio writes a capture frame to the websocket, device_state is
\* Listening.
C3_FramesOnlyWhileListening == [][WritesAudio => device_state = LISTENING]_vars

\* C4: play_audio dequeues playback frames only while device_state is Speaking.
C4_PlayOnlyWhileSpeaking == play_state \in {"none", SPEAKING}

C4_Played == play_state = SPEAKING /\ decode_queue = 0

\* C5: two abort_speaking calls in succession within one utterance run the body once:
\* one process_abort thread, so one abort message posted and one Idle transition
\* scheduled, and exactly one of each once that thread has passed its wait.
C5_AbortIdempotent ==
    (ab.calls = 2 /\ ~ab.raced) =>
        /\ ab.bodies = 1 /\ ab.sub <= 1 /\ ab.idle <= 1
        /\ (\A s \in AbortSlots : at[s].cur => at[s].pc \notin {"start", "wait"})
               => (ab.sub = 1 /\ ab.idle = 1)

C5_AbortedTwice ==
    /\ ab.calls = 2 /\ ~ab.raced /\ ab.sp
    /\ ab.bodies = 1 /\ ab.sub = 1 /\ ab.idle = 1
    /\ device_state = IDLE /\ Quiescent

\* C6 (as stated): when the transition from Speaking to Idle caused by abort_speaking
\* happens, the abort message has been written (or there was no websocket to write it to).
C6_AbortWrittenBeforeIdle ==
    [][\A s \in AbortSlots :
          (/\ RunsTagged(AbortTag(s)) /\ at[s].cur
           /\ device_state = SPEAKING /\ device_state' = IDLE)
              => at[s].sent \in {"written", "dropped"}]_vars

\* C6 (amended): the Idle transition of an abort is scheduled only after the abort
\* message was posted to the event loop, and after it was written unless the 1 s wait
\* on the send expired.
C6_AbortPostedBeforeIdle ==
    \A s \in AbortSlots :
        TagScheduled(s) => /\ at[s].sent # "none"
                           /\ (at[s].sent = "queued" => at[s].to)

C6_IdleAfterWrittenAbort ==
    \E s \in AbortSlots :
        /\ TagScheduled(s) /\ at[s].cur /\ at[s].sent = "written" /\ ~at[s].to
        /\ device_state = SPEAKING

\* C7: when a transition scheduled by the tts.stop drain takes the state out of
\* Speaking, the decode queue is empty.
C7_QueueEmptyWhenLeavingSpeaking ==
    [][(RunsTagged("drain") /\ device_state = SPEAKING /\ device_state' # SPEAKING)
          => decode_queue = 0]_vars

\* C8: every JSON control message written after the server hello of the connection
\* was received carries the session id the server assigned in that hello.
C8_SessionIdPropagated ==
    [][(WritesJson /\ connected /\ srv[websocket] = "helloed")
          => session_id = ServerSessionId(websocket)]_vars

\* C9: on every connection the iot descriptors are written exactly once, and no
\* iot states are written before them.
C9_DescriptorsOnceAndFirst ==
    [][/\ (WritesJson /\ Head(loopq).op = "send_desc") => desc_n[websocket] = 0
       /\ (WritesJson /\ Head(loopq).op = "send_states") => desc_n[websocket] = 1]_vars

\* C10: once a network error was reported and everything it set off has run, the
\* state has become Idle and the channel is closed: the websocket is released and
\* is_audio_channel_opened() is false.
C10_ErrorEndsIdleAndClosed ==
    (Quiescent /\ neterr # "no") =>
        (neterr = "idle" /\ websocket = 0 /\ ~connected)

C12_MissingRequiredRaises ==
    (method.res # "none" /\ ~(RequiredParams \subseteq method.supplied))
        => method.res = "raised"

\* no two registered things have the same name
DistinctNames == \A i, j \in DOMAIN things : i # j => things[i].name # things[j].name

\* the last get_states_json was a delta call, the call before it too, and no thing's
\* state differed between the two
DeltaTwiceNoChange == tm_ret.kind = "delta" /\ tm_ret.prev = "delta" /\ tm_ret.diff = {}

RECURSIVE StatesOf(_, _)
StatesOf(i, idx) ==
    IF i > Len(things) THEN <<>>
    ELSE (IF i \in idx THEN <<[name |-> things[i].name, state |-> tm_snap[i]]>> ELSE <<>>)
         \o StatesOf(i + 1, idx)

\* C14: after a delta call that cached all things, if exactly one thing's property
\* value changes, the next delta call returns changed = True and a list with exactly
\* that thing and its new value.
C14_DeltaExactlyChanged ==
    (/\ tm_ret.kind = "delta" /\ tm_ret.prev = "delta" /\ tm_ret.pall
     /\ Cardinality(tm_ret.diff) = 1)
        => (tm_ret.changed /\ tm_ret.states = StatesOf(1, tm_ret.diff))

\* the last call emitted the state of every registered thing
EmittedAll == tm_ret.states = StatesOf(1, DOMAIN things)

SessionClosed ==
    /\ device_state = IDLE /\ keep_listening = FALSE /\ aborted = FALSE
    /\ main_tasks = <<>> /\ batch = <<>> /\ mainpc = "run" /\ attempts = 0
    /\ sl_res = "-" /\ streams_started = TRUE
    /\ wwd_paused = FALSE
    /\ decode_queue = 0
    /\ websocket = 0 /\ connected = FALSE /\ hello_received = 1 /\ evset = {1}
    /\ session_id = 0
    /\ wsst = [c \in Conns |-> IF c = 1 THEN "closed" ELSE "none"]
    /\ nattempt = 1
    /\ cn = [c \in Conns |-> IF c = 1 THEN [pc |-> "done", who |-> "-", ev |-> 0]
                                      ELSE NoConnect]
    /\ srv = [c \in Conns |-> IF c = 1 THEN "helloed" ELSE "new"]
    /\ loopq = <<>>
    /\ ct = NoThread /\ clt = FALSE
    /\ at = [s \in AbortSlots |-> NoAbort]
    /\ ui_abort_pc = "idle"
    /\ lamp_power = FALSE /\ last_states = "off"
    /\ play_state = "none"
    /\ desc_n = [c \in Conns |-> IF c = 1 THEN 1 ELSE 0]
    /\ neterr = "no"
    /\ ab = NoAb

\* Idle with nothing in progress, as constructed or after a closed session; one event
\* from outside is left: the toggle.
InitToggle ==
    /\ Constructed \/ SessionClosed
    /\ nev = MaxEvents - 1
    /\ IotIdle

\* no fault and no other user operation; the server answers the client hello
NextToggle ==
    \/ Toggle \/ ProcessScheduled \/ RunToggleImpl \/ RunSetState \/ RunStartAudioStreams
    \/ HandleInputAudio \/ CtBegin \/ CtResult
    \/ LoopOpen \/ LoopSendText \/ LoopSendAudio
    \/ \E k \in Conns : ConnectEstablished(k) \/ HelloDone(k) \/ RecvHello(k)

\* the main loop, the asyncio loop and the threads keep running, the server answers
SpecToggle == InitToggle /\ [][NextToggle]_vars /\ WF_vars(NextToggle)

\* ------------------------------------------------ scenario: toggle after a drop
\* An established session, listening; two events from outside are left: the loss of
\* the connection and the toggle.
InitDrop == SessionEstablished /\ nev = MaxEvents - 2 /\ IotIdle

\* toggle_chat_state() called once the state is Idle again
ToggleAfterDrop == device_state = IDLE /\ Toggle

\* the connection is lost during Listening; no other fault, no other user operation,
\* and the server answers the client hello of a new connection
NextDrop ==
    \/ NetBreak(1) \/ RecvClosed(1) \/ RecvError(1) \/ ToggleAfterDrop
    \/ ProcessScheduled \/ RunToggleImpl \/ RunSetState \/ RunStartAudioStreams
    \/ HandleInputAudio \/ CtBegin \/ CtResult
    \/ LoopOpen \/ LoopSendText \/ LoopSendAudio \/ LoopClose
    \/ \E k \in Conns : ConnectEstablished(k) \/ HelloDone(k) \/ RecvHello(k)

SpecDrop == InitDrop /\ [][NextDrop]_vars /\ WF_vars(NextDrop)

\* ------------------------------------------------ scenario: start-up
\* ConfigManager._initialize_mqtt_info as Application.__init__ calls it, with every
\* answer the OTA server and its activate endpoint may give.
InitBoot ==
    /\ AppInit
    /\ things = <<>> /\ tm_last_states = [n \in ThingNames |-> Absent]
    /\ tm_ret = NoRet /\ tm_snap = <<>> /\ method = NoMethod
    /\ spk = NoSpeaker /\ iot_log = NoIot
    /\ boot \in BootStart /\ rx = <<>> /\ life = Alive /\ sch = SchedIdle
    /\ ref = NewProcessor(sample_rate, frame_size)

NextBoot ==
    \/ \E r \in OtaResponses : InitializeMqttInfo(r)
    \/ OtaFails
    \/ \E ok \in BOOLEAN : ProcessActivation(ok)
    \/ \E status \in Statuses : PostActivate(status)
    \/ \E r \in OtaResponses : RefetchOta(r)
    \/ RefetchFails

SpecBoot == InitBoot /\ [][NextBoot]_vars

\* ------------------------------------------------ scenario: the scheduler
\* Two threads and the tasks themselves call schedule while the main loop runs. The
\* main loop looks at its events every 10 ms as long as the application runs and a
\* caller of schedule goes on to its next statement, hence the weak fairness.
NextSched ==
    \/ \E t \in SchedThreads : ScheduleAppend(t) \/ ScheduleSet(t)
    \/ MainLoopClear \/ ProcessCopy \/ ProcessEnd
    \/ \E again \in BOOLEAN : ProcessRun(again)

SpecSched ==
    /\ Init /\ [][NextSched]_vars
    /\ \A t \in SchedThreads : WF_vars(ScheduleSet(t))
    /\ WF_vars(MainLoopClear) /\ WF_vars(ProcessCopy) /\ WF_vars(ProcessEnd)
    /\ WF_vars(\E again \in BOOLEAN : ProcessRun(again))

\* ------------------------------------------------ scenario: tasks that raise
\* The same, with tasks that raise an Exception. The for loop of
\* _process_scheduled_tasks goes on to its next task whether the task returned or
\* raised.
NextRaise ==
    \/ \E t \in SchedThreads : ScheduleAppend(t) \/ ScheduleSet(t)
    \/ MainLoopClear \/ ProcessCopy \/ ProcessEnd
    \/ \E again \in BOOLEAN : ProcessRun(again) \/ ProcessRaises(again)

SpecRaise ==
    /\ Init /\ [][NextRaise]_vars
    /\ \A t \in SchedThreads : WF_vars(ScheduleSet(t))
    /\ WF_vars(MainLoopClear) /\ WF_vars(ProcessCopy) /\ WF_vars(ProcessEnd)
    /\ WF_vars(\E again \in BOOLEAN : ProcessRun(again) \/ ProcessRaises(again))

\* ------------------------------------------------ scenario: shutdown
\* An established session, listening; the user may stop listening, and shutdown is
\* called at any moment. The main loop works while its thread has not ended, the
\* event loop while it has not stopped.
InitShutdown == SessionEstablished /\ nev = MaxEvents - 1 /\ IotIdle

MainLoopRuns ==
    /\ life.main = "on"
    /\ \/ ProcessScheduled \/ RunSetState \/ RunStopListeningImpl \/ HandleInputAudio

EventLoopRuns ==
    /\ life.loop = "on"
    /\ \/ LoopSendAudio \/ LoopSendText \/ LoopClose

NextShutdown ==
    \/ StopListening
    \/ MainLoopRuns \/ MainExit
    \/ EventLoopRuns \/ LoopStop
    \/ Shutdown \/ ShutdownReturn

SpecShutdown == InitShutdown /\ [][NextShutdown]_vars

\* ------------------------------------------------ scenario: closing the channel
\* An established session, listening. The connection may be lost; the next audio
\* frame then fails to be sent and _on_network_error posts close_audio_channel, whose
\* websocket.close() returns or raises. The user may toggle, which closes as well.
InitClose == SessionEstablished /\ nev = 0 /\ IotIdle

NextClose ==
    \/ NetBreak(1) \/ RecvClosed(1) \/ RecvError(1)
    \/ Toggle \/ RunToggleImpl \/ CloseThread
    \/ ProcessScheduled \/ RunSetState \/ HandleInputAudio
    \/ LoopSendAudio \/ LoopClose \/ LoopCloseFails

SpecClose == InitClose /\ [][NextClose]_vars

\* ------------------------------------------------ scenario: the reference buffer
\* A WebRTCProcessor of any of the sizes; frames are added and taken in any order.
InitRef ==
    /\ AppInit
    /\ things = <<>>
    /\ tm_last_states = [n \in ThingNames |-> Absent]
    /\ tm_ret = NoRet
    /\ tm_snap = <<>>
    /\ method = NoMethod
    /\ spk = NoSpeaker
    /\ iot_log = NoIot
    /\ boot = Booted /\ rx = <<>> /\ life = Alive /\ sch = SchedIdle
    /\ ref \in {NewProcessor(sr, fs) : sr \in SampleRates, fs \in FrameSizes}

NextRef == AddReferenceData \/ GetReferenceData

SpecRef == InitRef /\ [][NextRef]_vars

\* ------------------------------------------------ scenario: back-to-back TTS
\* An established session, speaking in auto mode; the server ends the utterance and
\* begins the next one, with audio frames at any moment.
InitBackToBack == SessionSpeaking /\ nev = MaxEvents - 2 /\ IotIdle

NextBackToBack ==
    \/ RecvText(1, "tts_stop") \/ RecvText(1, "tts_start") \/ RecvAudio(1)
    \/ ProcessScheduled \/ RunSetState \/ RunTtsStart \/ RunTtsStop \/ RunDrain
    \/ DrainPoll \/ HandleInputAudio \/ HandleOutputAudio
    \/ LoopSendAudio \/ LoopSendText

SpecBackToBack == InitBackToBack /\ [][NextBackToBack]_vars

\* ------------------------------------------------ scenario: text frames
\* An established session, listening, that receives two text frames of any kind.
InitFrames == SessionEstablished /\ nev = MaxEvents - 2 /\ IotIdle

NextFrames ==
    \/ \E frame \in TextFrames : RecvText(1, frame)
    \/ ProcessScheduled \/ RunSetState \/ RunTtsStart \/ RunTtsStop \/ RunDrain
    \/ DrainPoll \/ HandleInputAudio \/ HandleOutputAudio
    \/ LoopSendAudio \/ LoopSendText \/ LoopClose \/ RecvAudio(1)

SpecFrames == InitFrames /\ [][NextFrames]_vars

\* ------------------------------------------------ scenario: iot messages
\* An established session, listening, that receives two iot messages while the
\* microphone frames keep flowing.
InitIot == SessionEstablished /\ nev = MaxEvents - 2 /\ IotIdle

NextIot ==
    \/ \E commands \in IotMessages : RecvIotMessage(1, commands)
    \/ HandleInputAudio \/ LoopSendAudio

SpecIot == InitIot /\ [][NextIot]_vars

\* ------------------------------------------------ scenario: the handshake
\* toggle_chat_state() was called in the initial state: the orchestrator is Connecting,
\* the connect thread waits for its result and connect() has written the client hello
\* and waits for the server's.
AwaitingHello ==
    /\ device_state = CONNECTING /\ keep_listening = FALSE /\ aborted = FALSE
    /\ main_tasks = <<>> /\ batch = <<>> /\ mainpc = "run" /\ attempts = 0
    /\ sl_res = "-" /\ streams_started = FALSE
    /\ wwd_paused = TRUE
    /\ decode_queue = 0
    /\ websocket = 1 /\ connected = FALSE /\ hello_received = 1 /\ evset = {}
    /\ session_id = 0
    /\ wsst = [c \in Conns |-> IF c = 1 THEN "open" ELSE "none"]
    /\ nattempt = 1
    /\ cn = [c \in Conns |-> IF c = 1 THEN [pc |-> "hello_wait", who |-> "toggle", ev |-> 1]
                                      ELSE NoConnect]
    /\ srv = [c \in Conns |-> "new"]
    /\ loopq = <<>>
    /\ ct = [pc |-> "wait", res |-> "-"] /\ clt = FALSE
    /\ at = [s \in AbortSlots |-> NoAbort]
    /\ ui_abort_pc = "idle"
    /\ lamp_power = FALSE /\ last_states = "none"
    /\ play_state = "none"
    /\ desc_n = [c \in Conns |-> 0]
    /\ neterr = "no"
    /\ ab = NoAb

\* From there, the server free to answer the client hello with any transport or not at
\* all; the toggle was the first event from outside.
InitHello == AwaitingHello /\ nev = 1 /\ IotIdle

NextHello ==
    \/ ProcessScheduled \/ RunSetState \/ RunTtsStart \/ RunTtsStop
    \/ RunToggleImpl \/ RunStartListeningImpl \/ SlResult
    \/ RunStopListeningImpl \/ RunWakeWordDetected \/ RunToggleCall
    \/ RunStartAudioStreams \/ HandleInputAudio \/ HandleOutputAudio
    \/ UserStep \/ ThreadStep
    \/ LoopSendAudio \/ LoopSendText \/ LoopClose \/ LoopOpen \/ LoopWakeConnect
    \/ \E k \in Conns : ConnectEstablished(k) \/ HelloDone(k) \/ HelloTimeout(k)
    \/ \E c \in Conns : RecvHello(c) \/ RecvBadHello(c)
                        \/ RecvTts(c, "tts_start") \/ RecvTts(c, "tts_stop")
                        \/ RecvAudio(c) \/ RecvIotLamp(c) \/ RecvIotCapture(c)
                        \/ RecvClosed(c) \/ RecvError(c) \/ NetBreak(c)

SpecHello == InitHello /\ [][NextHello]_vars

\* ------------------------------------------------ scenario: a close during connect
\* toggle_chat_state() was called in Idle and connect() waits for the server's hello;
\* the hello comes, and the connection is lost at any moment from then on. Nothing
\* else happens from outside.
InitLateClose == AwaitingHello /\ nev = MaxEvents - 1 /\ IotIdle

NextLateClose ==
    \/ RecvHello(1) \/ HelloDone(1) \/ CtResult
    \/ NetBreak(1) \/ RecvClosed(1) \/ RecvError(1)
    \/ ProcessScheduled \/ RunSetState \/ RunStartAudioStreams \/ HandleInputAudio
    \/ LoopSendAudio \/ LoopSendText \/ LoopClose

SpecLateClose == InitLateClose /\ [][NextLateClose]_vars

\* connect() number k returns in this step, and its caller gets True (a caller that
\* stopped waiting gets nothing: then it is the `self.connected = True` before the
\* return that shows)
ReturnedTrue(k) ==
    /\ cn[k].pc \in {"dial", "hello_wait"} /\ cn'[k].pc = "done"
    /\ CASE cn[k].who = "toggle" -> ct'.res = "ok"
         [] cn[k].who = "sl" -> sl_res' = "ok"
         [] cn[k].who = "orphan" -> connected' /\ neterr' = "no"
         [] OTHER -> loopq' # <<>> /\ Head(loopq') = Co("send_detect", "-", "wake")

\* connect() number k returns in this step, and its caller gets False
ReturnedFalse(k) ==
    /\ cn[k].pc \in {"dial", "hello_wait"} /\ cn'[k].pc = "done"
    /\ CASE cn[k].who = "toggle" -> ct'.res = "fail"
         [] cn[k].who = "sl" -> sl_res' = "fail"
         [] cn[k].who = "orphan" -> neterr' \in {"pending", "idle"}
         [] OTHER -> loopq' = <<>> \/ Head(loopq') # Co("send_detect", "-", "wake")

\* C16: handshake gating. connect() returns True and sets `connected` only when the
\* Event it awaits, created at or after its own start, is set; an Event is set only on
\* receipt of a server hello with transport "websocket"; a server hello whose
\* transport is missing or different changes neither the channel nor the task list
\* nor the loop's queue (no audio_channel_opened); a hello wait that ends with the
\* Event unset returns False with the network error signalled.
C16_HandshakeGating ==
    [][/\ \A k \in Conns :
            /\ ReturnedTrue(k)
                 => (cn[k].pc = "hello_wait" /\ cn[k].ev >= k /\ cn[k].ev \in evset)
            /\ (cn[k].pc = "hello_wait" /\ cn'[k].pc = "done" /\ cn[k].ev \notin evset)
                 => (ReturnedFalse(k) /\ neterr' \in {"pending", "idle"})
       /\ (~connected /\ connected') => \E k \in Conns : ReturnedTrue(k)
       /\ evset' # evset
            => \E c \in Conns : srv[c] # "helloed" /\ srv'[c] = "helloed"
       /\ hello_received' # hello_received => hello_received' \notin evset'
       /\ \A c \in Conns : (srv[c] # "rejected" /\ srv'[c] = "rejected")
            => UNCHANGED <<cbvars, evset>>
       /\ is_audio_channel_opened(Cur)' => \E c \in Conns : srv'[c] = "helloed"]_vars

\* a server hello with another transport was ignored, the wait timed out, connect()
\* returned False and the network error was signalled
C16_RejectedThenTimeout ==
    /\ srv[1] = "rejected" /\ cn[1].pc = "done" /\ ct.res = "fail"
    /\ ~connected /\ neterr # "no" /\ evset = {}

\* delayed_state_change leaves its polling loop in this step
DrainEnds ==
    \/ /\ mainpc = "run" /\ batch # <<>> /\ Head(batch).op = "drain"
       /\ batch' = Tail(batch) /\ mainpc' = "run"
    \/ mainpc = "drain" /\ mainpc' = "run"

\* C17: when the drain that the handling of tts.stop in Speaking started has finished,
\* the transition it schedules is to Listening if keep_listening is true, and then
\* listen{start, auto} is posted for sending, and to Idle if keep_listening is false,
\* and then nothing is posted; that transition, when it runs, leaves the state at
\* its target.
C17_AfterDrain ==
    [][/\ DrainEnds =>
            IF keep_listening
            THEN /\ main_tasks' = Append(main_tasks, SetState(LISTENING, "drain"))
                 /\ loopq' = Append(loopq, Co("send_listen", AUTO_STOP, "-"))
            ELSE /\ main_tasks' = Append(main_tasks, SetState(IDLE, "drain"))
                 /\ loopq' = loopq
       /\ RunsTagged("drain") => device_state' = Head(batch).st]_vars

\* the drain has just finished in Speaking with keep_listening true: its transition
\* to Listening is scheduled and the listen message posted
C17_DrainedKeepListening ==
    /\ device_state = SPEAKING /\ keep_listening /\ decode_queue = 0
    /\ main_tasks = <<SetState(LISTENING, "drain")>>
    /\ loopq = <<Co("send_listen", AUTO_STOP, "-")>>

\* _toggle_chat_state_impl is about to run in Idle
ToggleInIdle ==
    mainpc = "run" /\ batch # <<>> /\ Head(batch).op = "toggle_impl" /\ device_state = IDLE

\* the listen{start, auto} message is at the head of the loop and its socket is alive
ListenAutoGoesOut ==
    /\ loopq # <<>> /\ Head(loopq) = Co("send_listen", AUTO_STOP, "-")
    /\ TextWritten(Cur)

\* C18: toggle_chat_state() executed while Idle, the server answering the hello: the
\* state goes from Idle to Connecting and from Connecting to Listening and nowhere
\* else, listen{start, auto} is written and keep_listening becomes true.
C18_ToggleFromIdle ==
    /\ [][device_state' # device_state
            => <<device_state, device_state'>>
                   \in {<<IDLE, CONNECTING>>, <<CONNECTING, LISTENING>>}]_vars
    /\ ToggleInIdle ~> ListenAutoGoesOut
    /\ ToggleInIdle ~> (device_state = LISTENING /\ keep_listening)

\* the second session, opened by the toggle, is listening
C18_ListeningAgain ==
    /\ device_state = LISTENING /\ keep_listening /\ wwd_paused
    /\ websocket = 2 /\ connected /\ srv[2] = "helloed" /\ wsst[2] = "open"
    /\ main_tasks = <<>> /\ batch = <<>> /\ loopq = <<>>

\* C19: after a transport failure during Listening has returned the state to Idle, a
\* toggle_chat_state() executed in Idle leads to a new connection with a new hello
\* exchange and to Listening on it.
C19_ToggleRecovers ==
    ToggleInIdle ~> (/\ device_state = LISTENING /\ keep_listening
                     /\ nattempt = 2 /\ websocket = 2 /\ connected /\ srv[2] = "helloed")

\* C20: _start_listening_impl run in Connecting or Listening changes neither
\* device_state nor keep_listening nor the detector's paused flag, schedules nothing
\* and posts no message.
C20_StartListeningNoOp ==
    [][(/\ mainpc = "run" /\ batch # <<>> /\ Head(batch).op = "start_listening_impl"
        /\ batch' = Tail(batch)
        /\ device_state \in {CONNECTING, LISTENING})
          => UNCHANGED <<device_state, keep_listening, wwd_paused, loopq, main_tasks>>]_vars

\* the main thread runs the task op at the head of the batch
Runs(op) ==
    mainpc = "run" /\ batch # <<>> /\ Head(batch).op = op /\ batch' = Tail(batch)

\* C21: _stop_listening_impl run in Listening posts listen{state:stop} for sending and
\* sets the state to Idle; run in Idle, Connecting or Speaking it posts nothing and
\* leaves device_state unchanged.
C21_StopListening ==
    [][Runs("stop_listening_impl") =>
          IF device_state = LISTENING
          THEN /\ device_state' = IDLE
               /\ loopq' = Append(loopq, Co("send_stop", "-", "-"))
          ELSE UNCHANGED <<device_state, loopq>>]_vars

\* stop_listening() has just run in Listening on an open channel
C21_StoppedFromListening ==
    /\ device_state = IDLE /\ is_audio_channel_opened(Cur) /\ wsst[websocket] = "open"
    /\ loopq = <<Co("send_stop", "-", "-")>> /\ nev = 1 /\ batch = <<>>

\* the last lamp command of the message, 0 if it has none
LastLamp(msg) ==
    LET idx == {i \in DOMAIN msg : msg[i] \in {"lamp_on", "lamp_off"}}
    IN IF idx = {} THEN 0 ELSE CHOOSE i \in idx : \A j \in idx : j <= i

\* C22: handling an iot message leaves device_state, keep_listening, aborted, the
\* task list, the loop's queue and the transport connection unchanged whatever
\* commands fail, every command of the message is dispatched, the unknown thing, the
\* unknown method and the callback error are failures, and the commands that cannot
\* fail take effect wherever they stand in the message.
C22_ThingErrorsContained ==
    [][iot_log' # iot_log =>
          /\ UNCHANGED <<device_state, keep_listening, aborted, main_tasks, loopq,
                         websocket, connected, wsst>>
          /\ Len(iot_log'.done) = Len(iot_log'.msg)
          /\ \A i \in DOMAIN iot_log'.msg :
                /\ iot_log'.msg[i] \in {"no_thing", "no_method", "vol_bad"}
                      => iot_log'.done[i] = "raised"
                /\ iot_log'.msg[i] \in {"lamp_on", "lamp_off", "vol_ok"}
                      => iot_log'.done[i] = "ok"
          /\ LastLamp(iot_log'.msg) # 0
                => lamp_power' = (iot_log'.msg[LastLamp(iot_log'.msg)] = "lamp_on")]_vars

\* a message whose first two commands failed and whose third switched the lamp on
C22_FailedThenLampOn ==
    /\ iot_log.msg = <<"no_thing", "vol_missing", "lamp_on">>
    /\ iot_log.done = <<"raised", "raised", "ok">>
    /\ lamp_power /\ device_state = LISTENING /\ is_audio_channel_opened(Cur)

\* C23: activate makes at most 60 POSTs; while it polls no POST was answered 200 and
\* the activated flag is as it was; it returns true exactly after a POST answered
\* 200, the flag then set; it returns false only without any POST (nothing to send)
\* or after 60 POSTs none of which was answered 200, the flag as it was.
C23_ActivationPolling ==
    /\ boot.posts <= max_retries
    /\ boot.pc = "polling" =>
          /\ boot.posts < max_retries /\ boot.last # "200"
          /\ boot.ret = "-" /\ boot.activated = boot.was
    /\ boot.ret = "true" <=> boot.last = "200"
    /\ boot.ret = "true" => boot.activated
    /\ boot.ret = "false" =>
          /\ boot.posts \in {0, max_retries} /\ boot.last # "200"
          /\ boot.activated = boot.was

\* the 60th POST is the first one answered 200, on a device that was not activated
C23_SucceededOnLastAttempt ==
    /\ boot.ret = "true" /\ boot.posts = max_retries
    /\ boot.activated /\ ~boot.was

\* C24: after a successful activation, once start-up is over, the configuration
\* holds the websocket url and token of the second OTA response.
C24_SecondResponseHeld ==
    (boot.pc = "done" /\ boot.ret = "true" /\ boot.fetches = 2 /\ boot.second.websocket
        /\ boot.second.url # "none")
    => /\ boot.url = boot.second.url
       /\ boot.token = update_websocket(boot, boot.second).token

\* C25: a text frame that is not JSON, or a JSON object whose type is unknown or
\* missing, leaves device_state, keep_listening, aborted, the decode queue, the
\* connection, the task list and the loop's queue unchanged, the handler keeps
\* receiving, and a tts message received after any such frames is scheduled.
C25_ProtocolErrorsKeepSession ==
    [][rx' # rx =>
          LET frame == rx'[Len(rx')]
          IN /\ frame \in {"not_json", "unknown_type", "no_type"} =>
                   /\ UNCHANGED <<device_state, keep_listening, aborted, decode_queue,
                                  websocket, connected, wsst, main_tasks, loopq>>
                   /\ Receiving(1)'
             /\ frame \in {"tts_start", "tts_stop"} =>
                   main_tasks' = Append(main_tasks, Task(frame))]_vars

\* after text that is not JSON, tts start was received and handled: speaking
C25_SpeakingAfterGarbage ==
    /\ rx = <<"not_json", "tts_start">>
    /\ device_state = SPEAKING /\ is_audio_channel_opened(Cur)

\* C26: once shutdown has returned and the event loop and the main loop have
\* ended, the codec is closed, the detector is stopped, the transport connection is
\* closed and no scheduled task is left unexecuted.
C26_ShutdownClosesAndDrains ==
    (life.sd = "returned" /\ life.loop = "stopped" /\ life.main = "exited")
    => /\ life.codec = "closed" /\ life.wwd = "stopped"
       /\ websocket = 0 /\ ~connected /\ \A c \in Conns : wsst[c] # "open"
       /\ main_tasks = <<>> /\ batch = <<>>

\* C27: every step that changes device_state is the main loop running a task of
\* the batch it took from the scheduled-task list.
C27_StateChangesOnMainLoop ==
    [][device_state' # device_state =>
          /\ mainpc = "run" /\ batch # <<>> /\ batch' = Tail(batch)]_vars

\* the numbers 1..n in order
UpTo(n) == [i \in 1..n |-> i]

\* C28: the tasks executed so far are the first submissions, in submission order and
\* once each; what is executed, being executed and still listed is exactly what was
\* submitted; and every submission is eventually executed.
C28_ScheduleFifoOnceEventually ==
    /\ [](/\ sch.done = UpTo(Len(sch.done))
          /\ sch.done \o sch.btch \o sch.tasks = UpTo(sch.submitted))
    /\ \A i \in 1..MaxSubmit : (sch.submitted >= i) ~> (Len(sch.done) >= i)

\* a task was appended between the event clear and the copy, its set came after the
\* copy, and all submissions have been executed, the main loop waiting again
C28_RacedAndExecuted ==
    /\ sch.raced /\ sch.submitted = MaxSubmit /\ sch.done = UpTo(MaxSubmit)
    /\ sch.mpc = "wait" /\ sch.ev

\* C29: the main loop running _handle_tts_start sets aborted to false and empties the
\* decode queue whatever the state is, and schedules the change to Speaking exactly
\* when the state is Idle or Listening; and the state only ever becomes Speaking from
\* Idle or Listening.
C29_TtsStart ==
    [][/\ Runs("tts_start") =>
             /\ aborted' = FALSE /\ decode_queue' = 0
             /\ main_tasks' = IF device_state \in {IDLE, LISTENING}
                              THEN Append(main_tasks, SetState(SPEAKING, "-"))
                              ELSE main_tasks
             /\ device_state' = device_state
       /\ (device_state' = SPEAKING /\ device_state # SPEAKING)
             => device_state \in {IDLE, LISTENING}]_vars

\* set_device_state is called with the state the device is in: by the main loop
\* running a scheduled change, or by the camera thing in Listening
SameStateCall ==
    \/ Runs("set_state") /\ Head(batch).st = device_state
    \/ /\ device_state = LISTENING /\ nev' = nev + 1
       /\ loopq' = Append(loopq, Co("send_detect", "-", "-"))

\* C30: set_device_state called with the current state changes nothing: not the
\* state, not the detector's pause, not the iot states last sent and no state message
\* posted, not the playback and error bookkeeping, no task scheduled.
C30_SameStateNoEffect ==
    [][SameStateCall =>
          /\ UNCHANGED <<device_state, wwd_paused, last_states, play_state, neterr,
                         keep_listening, main_tasks, websocket, connected, wsst>>
          /\ loopq' \in {loopq, Append(loopq, Co("send_detect", "-", "-"))}]_vars

\* the camera thing called set_device_state(LISTENING) in the listening session: its
\* detect message is posted, no iot state message with it
C30_CaptureWhileListening ==
    /\ nev = 1 /\ device_state = LISTENING /\ wwd_paused
    /\ Pending(loopq, "send_detect") /\ ~Pending(loopq, "send_states")

\* the step is a run of the close_audio_channel coroutine at the head of the loop
\* with a websocket to close
ClosesChannel == LoopHead({"close"}) /\ websocket # 0 /\ loopq' = Tail(loopq)

\* C31: when close_audio_channel has run, websocket is None and connected is false,
\* whether websocket.close() returned or raised.
C31_CloseAlwaysResets ==
    [][ClosesChannel => websocket' = 0 /\ ~connected']_vars

\* the frames first, first + 1, ..., last in order
Frames(first, last) == [i \in 1..(last - first + 1) |-> first + i - 1]

\* C32: the reference buffer holds at most sample_rate // frame_size frames; it holds,
\* in insertion order, the newest frames that were not taken yet (an overflow drops
\* the oldest); get_reference_data returns the oldest frame held and removes it, and
\* returns None when the buffer is empty.
C32_ReferenceRing ==
    /\ [](/\ Len(ref.buf) <= ref.sample_rate \div ref.frame_size
          /\ LET kept == ref.added - (ref.sample_rate \div ref.frame_size)
                 first == (IF ref.out > kept THEN ref.out ELSE kept) + 1
             IN ref.buf = Frames(first, ref.added))
    /\ [][(ref' # ref /\ ref'.added = ref.added)
          => IF ref.buf = <<>>
             THEN ref'.ret = None /\ ref'.buf = <<>>
             ELSE ref'.ret = Head(ref.buf) /\ ref'.buf = Tail(ref.buf)]_vars

\* one frame more than the buffer holds was added, and the first get returned the
\* second frame
C32_OverflowThenGet ==
    /\ ref.added = (ref.sample_rate \div ref.frame_size) + 1
    /\ ref.ret = 2 /\ Len(ref.buf) = (ref.sample_rate \div ref.frame_size) - 1

\* the main thread has run every task and is not inside one
MainLoopIdle == main_tasks = <<>> /\ batch = <<>> /\ mainpc = "run"

\* C33: a tts.stop and then a tts.start were received, the first while Speaking, and
\* nothing else (no further stop, no abort): once the main thread has handled them
\* and what they scheduled, the state is Speaking, for the new utterance.
C33_NextUtteranceSpoken ==
    (rx = <<"tts_stop", "tts_start">> /\ MainLoopIdle) => device_state = SPEAKING

\* connection k exists or is being made: its socket is open, with its message
\* handler, or its connect() is dialling or waiting for the hello
Live(k) == wsst[k] = "open" \/ cn[k].pc \in {"dial", "hello_wait"}

\* C34: at most one connection is open or being made at any time.
C34_OneConnection == Cardinality({k \in Conns : Live(k)}) <= 1

\* the step is the return of hello_received.wait() in connect() number k
HelloWaitReturns(k) ==
    cn[k].pc = "hello_wait" /\ cn[k].ev \in evset /\ cn'[k].pc = "done"

\* the step handles a server hello of transport "websocket" on connection c
HelloHandled(c) == srv[c] # "helloed" /\ srv'[c] = "helloed"

\* C35: the hello wait of a connect() returns only when the server has sent its
\* hello on that call's connection, and a server hello is handled, with its
\* audio_channel_opened, only on the connection of the connect() that is waiting.
C35_OwnHello ==
    [][\A k \in Conns :
          /\ HelloWaitReturns(k) => srv[k] = "helloed"
          /\ HelloHandled(k) => websocket = k /\ cn[k].pc = "hello_wait"]_vars

\* C36: once nothing is in progress any more, Listening goes with an open channel: a
\* channel closed while a connect-and-listen attempt was finishing has led the
\* state back to Idle.
C36_SettledListeningHasChannel ==
    (Quiescent /\ device_state = LISTENING) => is_audio_channel_opened(Cur)

\* C37: once nothing is in progress any more and the state is Idle, the wake detector
\* is not paused.
C37_SettledIdleResumed == (Quiescent /\ device_state = IDLE) => ~wwd_paused

\* C38: from abort_speaking to the next handled tts.start (the aborted flag is set
\* in between) the decode queue is empty, so that nothing is there to be played.
C38_NoFramesAfterAbort == aborted => decode_queue = 0

\* C39: within one utterance the body of abort_speaking runs at most once, whichever
\* threads call it: at most one process_abort thread is started and at most one abort
\* message is posted.
C39_OneAbortPerUtterance == ab.bodies <= 1 /\ ab.sub <= 1

\* C40: when tasks raise, the main loop goes on: the tasks are still executed in
\* submission order, once each, none is dropped, and every task submitted, before or
\* after a task that raised, is eventually executed.
C40_RaiseContained ==
    /\ [](sch.failed # {} =>
             /\ sch.mpc \in {"wait", "cleared", "exec"}
             /\ sch.done = UpTo(Len(sch.done))
             /\ sch.done \o sch.btch \o sch.tasks = UpTo(sch.submitted))
    /\ \A i \in 1..MaxSubmit :
          (sch.failed # {} /\ sch.submitted >= i) ~> (Len(sch.done) >= i)

\* the first task raised with another task behind it in its batch, and all the
\* submissions have been executed, the main loop waiting again
C40_RaisedAndRestExecuted ==
    /\ 1 \in sch.failed /\ sch.rest >= 1
    /\ sch.submitted = MaxSubmit /\ sch.done = UpTo(MaxSubmit)
    /\ sch.mpc = "wait"

====
